---- MODULE Spec2Model ----
(***************************************************************************)
(* NEO (neoppod): transactional commit control plane.                      *)
(*                                                                         *)
(* Part I   - primary master, service phase: TID allocation, per-TID lock  *)
(*            collection and the finish fan-out                            *)
(*            (neo/master/service.py, neo/master/handlers/storage.py).     *)
(* Part II  - client transaction engine: store, conflict resolution, vote, *)
(*            finish (neo/client/app.py, neo/client/handlers/storage.py).  *)
(* Part III - client cache: load against invalidation (neo/client/app.py). *)
(* Part IV  - partition table (neo/pt.py) as master, client and storage    *)
(*            hold it.                                                     *)
(* Part V   - client connection pool and waits (neo/client/pool.py,        *)
(*            Application._waitMessage).                                   *)
(* Part VI  - the loop of Application._load over the cells of an object.   *)
(* Part VII - the transaction lock of NEOStorage (neo/client/NEOStorage.py). *)
(* Part VIII - waitResponses against the store timeout hook run by the     *)
(*            poll thread (Application.waitResponses, onStoreTimeout).     *)
(* Part IX - the idle events of the event manager (neo/event.py).          *)
(* Part X  - a storage node locking and unlocking the objects of a        *)
(*            transaction (neo/storage/handlers/master.py).                *)
(* Part XI - the queue of connections to process of the event manager     *)
(*            (neo/event.py).                                              *)
(* Part XII - the connection of the client to the primary master on       *)
(*            demand and the buffer of OIDs (neo/client/app.py).           *)
(***************************************************************************)
EXTENDS Integers, Sequences, FiniteSets, TLC

(***************************************************************************)
(* Bounds of the model.                                                    *)
(***************************************************************************)
\* number of TIDs the master allocates in a run
MaxTID == 2

(***************************************************************************)
(* Cluster configuration.                                                  *)
(***************************************************************************)
\* num_partitions of the partition table (pt.py, PartitionTable.__init__)
NumPartitions == 2

Clients == {"c1", "c2"}
Storages == {"s1", "s2"}
Nodes == Clients \cup Storages
\* message ids of the AskFinishTransaction requests; 1 is the id of the begin
\* requests, 0 stands for no id
MsgIds == {2, 3}
OidLists == {<<>>, <<2>>}

\* node states and cell states (neo.protocol)
RUNNING_STATE == "RUNNING"
TEMPORARILY_DOWN_STATE == "TEMPORARILY_DOWN"
BROKEN_STATE == "BROKEN"
UP_TO_DATE_STATE == "UP_TO_DATE"
OUT_OF_DATE_STATE == "OUT_OF_DATE"
FEEDING_STATE == "FEEDING"
DISCARDED_STATE == "DISCARDED"

(***************************************************************************)
(* Generic helpers.                                                        *)
(***************************************************************************)
Range(s) == {s[i] : i \in DOMAIN s}

RECURSIVE SeqFilter(_, _)
SeqFilter(s, keep) ==
    IF s = <<>> THEN <<>>
    ELSE IF Head(s) \in keep THEN <<Head(s)>> \o SeqFilter(Tail(s), keep)
         ELSE SeqFilter(Tail(s), keep)

(***************************************************************************)
(* PART I : the primary master in service.                                 *)
(***************************************************************************)
VARIABLES
    ltid,       \* app.ltid: the last TID allocated
    tm,         \* app.finishing_transaction_dict / app.tm: tid -> record
    nm,         \* app.nm: node -> state, for the nodes the manager knows
    conns,      \* app.em.getConnectionList(): identified connections, in order
    mpt,        \* app.pt.partition_list: offset -> list of cells
    lptid,      \* app.lptid: the last partition table ID
    out,        \* the packets queued by the handler that ran last, in order
    mstatus,    \* "service", or why the master left the service loop
    corder,     \* app.nm.getClientList(): the node manager's client order
    fin,        \* tid -> the record a fan-out of the last handler was made from
    finished    \* history: the TIDs AnswerTransactionFinished was queued for

mvars ==
    <<ltid, tm, nm, conns, mpt, lptid, out, mstatus, corder, fin, finished>>

\* Part II, the client: the thread context and what surrounds it
VARIABLES
    lv,         \* app.local_var: the thread context of the transaction
    pend,       \* store requests sent and not answered (dispatcher)
    queue,      \* local_var.queue: answers queued by the poll thread
    up,         \* the storages the connection pool has a connection to
    mq_cache,   \* app.mq_cache: oid -> (serial, data)
    cphase,     \* where the application thread is
    cres,       \* what the last call of the application returned or raised
    rlog,       \* the (oid, serial) pairs the last step asked the resolver
    resolved_oid_set,   \* resolved_oid_set of waitStoreResponses
    ctid,       \* the last TID the master answered to this client
    load_lock   \* app._load_lock is held

cvars ==
    <<lv, pend, queue, up, mq_cache, cphase, cres, rlog, resolved_oid_set,
      ctid, load_lock>>

\* Part III, the client's loads: the cache, the load lock and the packets
\* of the master on their way to the client
VARIABLES
    committed,  \* oid -> (serial, data) of the last revision on the storages
    mtid,       \* the TID of the last transaction the master finished
    mconn,      \* packets of the master to this client, in sending order
    loading,    \* the thread in load: position, oid, answer received
    finishing,  \* the thread in tpc_finish: position, oid, tid, data_dict
    processed,  \* oid -> latest TID of the invalidations processed for it
    lres,       \* what the last load returned or raised
    history,    \* oid -> the serials of the revisions on the storages
    sloading,   \* the thread in loadSerial or loadBefore
    sres        \* what the last loadSerial or loadBefore returned or raised

hvars == <<history, sloading, sres>>

lvars ==
    <<committed, mtid, mconn, loading, finishing, processed, lres, hvars>>

\* Part IV, a partition table (neo/pt.py) with the node manager it reads,
\* as a client or a storage holds it
VARIABLES
    ptab,       \* the PartitionTable object: id, np, num_filled_rows,
                \* partition_list, count_dict
    pnm,        \* node -> state, of the nodes the table's cells refer to
    praised,    \* the exception the last call on the table raised, or "none"
    ready,      \* ready of Application._connectToPrimaryNode
    bpc,        \* where the client is in _connectToPrimaryNode
    dm          \* the storage's database: ptid and partition table rows

tvars == <<ptab, pnm, praised, ready, bpc, dm>>

\* Part V, the client's connection pool and the waits of its threads
VARIABLES
    connection_dict,    \* ConnectionPool.connection_dict: uuid -> connection
    pconn,      \* the connections made so far: uuid, state, last message id
    dispatcher, \* the requests registered: connection, message id, thread
    thread,     \* where each application thread is and what it got last
    tqueue,     \* local_var.queue of each thread
    snode       \* the storage nodes as the node manager has them

wvars == <<connection_dict, pconn, dispatcher, thread, tqueue, snode>>

\* Part VI, the loop of _load over the cells of an object
VARIABLES
    ltry        \* the last load: the object, what its cells came to, and
                \* what the load gave

\* Part VII, the transaction lock of NEOStorage
VARIABLES
    nlock,      \* NEOStorage's transaction lock is held
    nthread     \* thread -> where it is in NEOStorage, its local_var.txn,
                \* the handle it waits to begin, what its last call raised

nvars == <<nlock, nthread>>


\* Part VIII, waitResponses and the store timeout hook
VARIABLES
    requests,       \* the requests sent on the connection, by message id
    unanswered,     \* the message ids the storage has not answered yet
    message_table,  \* the dispatcher: message id -> the thread whose queue
                    \* expects the answer, or NOBODY
    rqueue,         \* thread -> its local_var.queue
    waiter,         \* thread -> where it is in store and waitResponses
    forgetting,     \* the queue forget() returned to onStoreTimeout, which
                    \* has not called conn.ask yet
    stored,         \* the message ids handled as answers to a store
    forgotten       \* the message ids that were forgotten

dvars == <<requests, unanswered, message_table, rqueue, waiter, forgetting,
           stored, forgotten>>


\* Part IX, the idle events of the event manager
VARIABLES
    now,            \* the last value time() gave
    prev_time,      \* EpollEventManager.prev_time
    event_list,     \* EpollEventManager.event_list
    econn           \* connection -> whether a request was sent on it, its
                    \* state, the pings sent and whether timeoutExpired
                    \* was called

evars == <<now, prev_time, event_list, econn>>


\* Part X, the lock tables of a storage node
VARIABLES
    transaction_dict,   \* app.transaction_dict: TID -> the objects stored
    load_lock_dict,     \* app.load_lock_dict: OID -> TID
    store_lock_dict,    \* app.store_lock_dict: OID -> TID
    event_queue,        \* the events the storage delays
    sdm,                \* the database: the TIDs stored and finished
    sanswer,            \* what the last handler answered
    executions,         \* how often executeQueuedEvents was called
    phase               \* TID -> what the master has sent for it

svars == <<transaction_dict, load_lock_dict, store_lock_dict, event_queue,
           sdm, sanswer, executions, phase>>


\* Part XI, the event manager and its queue of connections to process
VARIABLES
    em_connection_dict, \* EpollEventManager.connection_dict: the
                        \* connections registered
    pending_processing, \* EpollEventManager._pending_processing
    received,           \* connection -> the packets that wait on its socket
    messages,           \* connection -> the messages read and not yet
                        \* processed
    asserted,           \* the assertion of unregister failed
    polled              \* what the last poll did: whether it read the
                        \* network and the connection it processed

qvars == <<em_connection_dict, pending_processing, received, messages,
           asserted, polled>>


\* Part XII, the connection to the primary master on demand
VARIABLES
    master_conn,        \* Application.master_conn, 0 for None
    new_oid_list,       \* the number of OIDs in Application.new_oid_list
    connecting_lock,    \* the thread that holds _connecting_to_master_node,
                        \* "" when free
    oid_lock,           \* the thread that holds _oid_lock, "" when free
    caller,             \* thread -> where it is in _getMasterConnection and
                        \* new_oid, what it read and what it was returned
    connections,        \* the connections _connectToPrimaryNode made
    resetters           \* the threads that emptied new_oid_list

gvars == <<master_conn, new_oid_list, connecting_lock, oid_lock, caller,
           connections, resetters>>

xvars == <<ltry, nvars, dvars, evars, svars, qvars, gvars>>

\* the variables of Parts I to V
pvars == <<mvars, cvars, lvars, tvars, wvars>>

\* Part VI acts alone
OnlyTries == UNCHANGED <<pvars, nvars, dvars, evars, svars, qvars, gvars>>

\* Part VII acts alone
OnlyLock == UNCHANGED <<pvars, ltry, dvars, evars, svars, qvars, gvars>>

\* Part VIII acts alone
OnlyWait == UNCHANGED <<pvars, ltry, nvars, evars, svars, qvars, gvars>>

\* Part IX acts alone
OnlyTimers == UNCHANGED <<pvars, ltry, nvars, dvars, svars, qvars, gvars>>

\* Part X acts alone
OnlyLocks == UNCHANGED <<pvars, ltry, nvars, dvars, evars, qvars, gvars>>

\* Part XI acts alone
OnlyPoll == UNCHANGED <<pvars, ltry, nvars, dvars, evars, svars, gvars>>

\* Part XII acts alone
OnlyConnect == UNCHANGED <<pvars, ltry, nvars, dvars, evars, svars, qvars>>

\* the client's variables the loads leave alone
cothers ==
    <<lv, pend, queue, up, cphase, cres, rlog, resolved_oid_set, ctid,
      load_lock>>

\* the master's state as a handler finds it, as one value, so that handlers
\* compose: nothing queued yet, no fan-out made yet
MState ==
    [ltid |-> ltid, tm |-> tm, nm |-> nm, conns |-> conns, pt |-> mpt,
     lptid |-> lptid, out |-> <<>>, status |-> mstatus, corder |-> corder,
     fin |-> <<>>]

MApply(m) ==
    /\ ltid' = m.ltid
    /\ tm' = m.tm
    /\ nm' = m.nm
    /\ conns' = m.conns
    /\ mpt' = m.pt
    /\ lptid' = m.lptid
    /\ out' = m.out
    /\ mstatus' = m.status
    /\ corder' = m.corder
    /\ fin' = m.fin
    /\ finished' = finished \cup
            {m.out[i].tid : i \in {j \in DOMAIN m.out :
                                m.out[j].type = "AnswerTransactionFinished"}}
    /\ UNCHANGED <<cvars, lvars, tvars, wvars, xvars>>

Packet(to, type, msg_id, tid, oids) ==
    [to |-> to, type |-> type, msg_id |-> msg_id, tid |-> tid, oids |-> oids]

\* PartitionTable._getPartitionFromIndex
getPartition(index) == index % NumPartitions

\* Cell.getUUID over PartitionTable.getCellList(offset) with no flag set:
\* every cell of the row, whatever its state
CellUUIDs(pt, offset) == {pt[offset][i].uuid : i \in DOMAIN pt[offset]}

\* an operational() that does not look at the states of the nodes
RowsOperationalAnyNodeMutant(pt, nodes) ==
    \A offset \in DOMAIN pt :
        \E i \in DOMAIN pt[offset] :
            pt[offset][i].state \in {UP_TO_DATE_STATE, FEEDING_STATE}

\* PartitionTable.operational, rows part: every row holds an up-to-date or
\* feeding cell whose node is running
RowsOperational(pt, nodes) ==
    \A offset \in DOMAIN pt :
        \E i \in DOMAIN pt[offset] :
            /\ pt[offset][i].state \in {UP_TO_DATE_STATE, FEEDING_STATE}
            /\ pt[offset][i].uuid \in DOMAIN nodes
            /\ nodes[pt[offset][i].uuid] = RUNNING_STATE

\* class FinishingTransaction: the record made by handleAskNewTID.
\* _msg_id None is 0, _oid_list None is <<>>; prepared tells whether
\* setUUIDSet was called (_uuid_set is None until then).  reported is
\* history, no field of the class: the storages whose lock reply for this
\* transaction the master has handled.
FinishingTransaction(conn) ==
    [conn |-> conn, msg_id |-> 0, oid_list |-> <<>>, prepared |-> FALSE,
     uuid_set |-> {}, locked |-> {}, reported |-> {}]

Reported(m, tid, uuid) ==
    IF tid \in DOMAIN m.tm
    THEN [m EXCEPT !.tm[tid].reported = @ \cup {uuid}]
    ELSE m

DelTxn(table, tid) == [t \in DOMAIN table \ {tid} |-> table[t]]

PutTxn(table, tid, rec) ==
    [t \in DOMAIN table \cup {tid} |-> IF t = tid THEN rec ELSE table[t]]

DelNode(nodes, n) == [x \in DOMAIN nodes \ {n} |-> nodes[x]]

SetNode(nodes, n, st) == [nodes EXCEPT ![n] = st]

\* mutation of allLocked: one locked storage is enough
AllLockedAnyMutant(t) == t.locked # {}

\* FinishingTransaction.allLocked
allLocked(t) == t.uuid_set = t.locked

\* FinishingTransaction.addLockedUUID (the caller has checked t.prepared)
addLockedUUID(t, uuid) ==
    IF uuid \in t.uuid_set THEN [t EXCEPT !.locked = @ \cup {uuid}] ELSE t

\* app.pt.dropNode(node): the cells of the node leave every row
dropNode(pt, n) ==
    [offset \in DOMAIN pt |->
        SeqFilter(pt[offset], {c \in Range(pt[offset]) : c.uuid # n})]

\* app.outdateAndBroadcastPartition: cells of nodes that are not running
\* become out-of-date
outdate(pt, nodes) ==
    [offset \in DOMAIN pt |->
        [i \in DOMAIN pt[offset] |->
            IF /\ pt[offset][i].uuid \in DOMAIN nodes
               /\ nodes[pt[offset][i].uuid] # RUNNING_STATE
               /\ pt[offset][i].state = UP_TO_DATE_STATE
            THEN [pt[offset][i] EXCEPT !.state = OUT_OF_DATE_STATE]
            ELSE pt[offset][i]]]

\* a loop that forgets only the first transaction of the connection
DropFirstTxnMutant(table, conn) ==
    LET own == {x \in DOMAIN table : table[x].conn = conn}
    IN  IF own = {} THEN table
        ELSE DelTxn(table, CHOOSE x \in own : \A y \in own : x <= y)

\* the transactions begun on a connection are dropped
\* (the loop over finishing_transaction_dict in connectionClosed & co.)
DropTxnsOf(table, conn) ==
    [t \in {x \in DOMAIN table : table[x].conn # conn} |-> table[t]]

CloseConn(m, conn) ==
    [m EXCEPT !.conns = SeqFilter(@, Range(@) \ {conn})]

\* Transaction.forget(uuid) of the transaction manager: a lost storage is
\* no longer waited for
forget(t, uuid) ==
    [t EXCEPT !.uuid_set = @ \ {uuid}, !.locked = @ \ {uuid}]

\* tm.lock(tid, uuid) of the transaction manager: the reporting UUID joins
\* the locked set
lock(t, uuid) == [t EXCEPT !.locked = @ \cup {uuid}]

\* the loop over nm.getClientList(only_identified=True) of _afterLock
RECURSIVE ClientFanOut(_, _, _, _)
ClientFanOut(cl, connected, t, tid) ==
    IF cl = <<>> THEN <<>>
    ELSE (IF Head(cl) \notin connected THEN <<>>
          ELSE IF Head(cl) = t.conn
               THEN <<Packet(Head(cl), "AnswerTransactionFinished",
                             t.msg_id, tid, <<>>)>>
               ELSE <<Packet(Head(cl), "InvalidateObjects", 0, tid,
                             t.oid_list)>>)
         \o ClientFanOut(Tail(cl), connected, t, tid)

\* the loop over t.getUUIDList() of _afterLock
RECURSIVE UnlockFanOut(_, _, _)
UnlockFanOut(cl, uuid_set, tid) ==
    IF cl = <<>> THEN <<>>
    ELSE (IF Head(cl) \in uuid_set
          THEN <<Packet(Head(cl), "NotifyUnlockInformation", 0, tid, <<>>)>>
          ELSE <<>>) \o UnlockFanOut(Tail(cl), uuid_set, tid)

\* StorageServiceHandler._afterLock; t is tm[tid]
_afterLock(m, tid) ==
    LET t == m.tm[tid]
    IN  IF t.uuid_set \subseteq Range(m.conns)
        THEN [m EXCEPT
                !.out =
                    @ \o ClientFanOut(m.corder, Range(m.conns), t, tid)
                      \o UnlockFanOut(m.conns, t.uuid_set, tid),
                !.fin = PutTxn(@, tid, t),
                !.tm = DelTxn(@, tid)]
        \* getConnection() of a node without connection is None
        ELSE [m EXCEPT
                !.out =
                    @ \o ClientFanOut(m.corder, Range(m.conns), t, tid),
                !.fin = PutTxn(@, tid, t),
                !.status = "AttributeError"]

\* the loop "for tid, transaction in self.app.tm.items()" of nodeLost,
\* over the TIDs from tid upwards
RECURSIVE ForgetLoop(_, _, _)
ForgetLoop(m, uuid, tid) ==
    IF tid > MaxTID \/ m.status # "service" THEN m
    ELSE IF tid \notin DOMAIN m.tm THEN ForgetLoop(m, uuid, tid + 1)
         ELSE LET t == forget(m.tm[tid], uuid)
                  m1 == [m EXCEPT !.tm[tid] = t]
              IN  IF t.prepared /\ allLocked(t)
                  THEN ForgetLoop(_afterLock(m1, tid), uuid, tid + 1)
                  ELSE ForgetLoop(m1, uuid, tid + 1)

\* StorageServiceHandler.nodeLost
nodeLost(m, conn) ==
    IF ~RowsOperational(m.pt, m.nm)
    THEN [m EXCEPT !.status = "OperationFailure"]
    \* outdateAndBroadcastPartition: changed cells are broadcast under a new
    \* partition table ID
    ELSE ForgetLoop([m EXCEPT !.pt = outdate(@, m.nm),
                              !.lptid = IF outdate(m.pt, m.nm) # m.pt
                                        THEN @ + 1 ELSE @], conn, 1)

\* the connection-loss handling of the service handlers: after the state
\* change of the node, the handler of a storage connection runs nodeLost
connectionLost(m, conn) ==
    IF conn \in Storages /\ m.status = "service" THEN nodeLost(m, conn)
    ELSE m

\* ServiceEventHandler.connectionClosed
connectionClosed(m, conn) ==
    IF conn \in DOMAIN m.nm /\ m.nm[conn] = RUNNING_STATE
    THEN IF conn \in Clients
         THEN CloseConn([m EXCEPT !.nm = DelNode(@, conn),
                                  !.tm = DropTxnsOf(@, conn)], conn)
         ELSE LET nodes == SetNode(m.nm, conn, TEMPORARILY_DOWN_STATE)
              IN  connectionLost(
                    CloseConn([m EXCEPT !.nm = nodes,
                        !.status = IF RowsOperational(m.pt, nodes)
                                   THEN @ ELSE "OperationFailure"], conn),
                    conn)
    ELSE CloseConn(m, conn)

\* ServiceEventHandler.timeoutExpired: the same statements as
\* connectionClosed
timeoutExpired(m, conn) == connectionClosed(m, conn)

\* app.getNextPartitionTableID
getNextPartitionTableID(m) == m.lptid + 1

\* ServiceEventHandler.peerBroken
peerBroken(m, conn) ==
    IF conn \in DOMAIN m.nm /\ m.nm[conn] # BROKEN_STATE
    THEN IF conn \in Clients
         THEN CloseConn([m EXCEPT !.nm = DelNode(@, conn),
                                  !.tm = DropTxnsOf(@, conn)], conn)
         ELSE LET nodes == SetNode(m.nm, conn, BROKEN_STATE)
                  pt == dropNode(m.pt, conn)
              IN  connectionLost(
                    CloseConn([m EXCEPT !.nm = nodes, !.pt = pt,
                        !.lptid = getNextPartitionTableID(m),
                        !.status = IF RowsOperational(pt, nodes)
                                   THEN @ ELSE "OperationFailure"], conn),
                    conn)
    ELSE CloseConn(m, conn)

\* EventHandler.handleUnexpectedPacket: a protocol error is answered, the
\* connection aborted and the peer treated as broken
handleUnexpectedPacket(m, conn, msg_id) ==
    peerBroken([m EXCEPT !.out = Append(@, Packet(conn, "ProtocolError",
                                                  msg_id, 0, <<>>))], conn)

\* app.getNextTID
getNextTID(m) == m.ltid + 1

\* mutation of handleAskNewTID: the TID is answered, no record is made
AnswerWithoutRecordMutant(m, conn, msg_id) ==
    [m EXCEPT !.ltid = getNextTID(m),
              !.out = Append(@, Packet(conn, "AnswerNewTID", msg_id,
                                       getNextTID(m), <<>>))]

\* ServiceEventHandler.handleAskNewTID
handleAskNewTID(m, conn, msg_id) ==
    IF conn \notin Clients
    THEN handleUnexpectedPacket(m, conn, msg_id)
    ELSE LET tid == getNextTID(m)
         IN  [m EXCEPT !.ltid = tid,
                       !.tm = PutTxn(@, tid, FinishingTransaction(conn)),
                       !.out = Append(@, Packet(conn, "AnswerNewTID",
                                                msg_id, tid, <<>>))]

\* the loop "for c in app.em.getConnectionList(): if c.getUUID() in
\* uuid_set" of handleFinishTransaction
RECURSIVE LockRequests(_, _, _)
LockRequests(cl, uuid_set, tid) ==
    IF cl = <<>> THEN <<>>
    ELSE (IF Head(cl) \in uuid_set
          THEN <<Packet(Head(cl), "LockInformation", 0, tid, <<>>)>>
          ELSE <<>>) \o LockRequests(Tail(cl), uuid_set, tid)

\* ServiceEventHandler.handleFinishTransaction
handleFinishTransaction(m, conn, msg_id, oid_list, tid) ==
    IF conn \notin Clients \/ m.ltid < tid
    THEN handleUnexpectedPacket(m, conn, msg_id)
    ELSE LET partition_set == {getPartition(tid)}
                 \cup {getPartition(oid_list[i]) : i \in DOMAIN oid_list}
             uuid_set == UNION {CellUUIDs(m.pt, part) : part \in partition_set}
         IN  [m EXCEPT
                !.out = @ \o LockRequests(m.conns, uuid_set, tid),
                !.tm = IF tid \in DOMAIN @
                       THEN [@ EXCEPT ![tid].oid_list = oid_list,
                                      ![tid].uuid_set = uuid_set,
                                      ![tid].prepared = TRUE,
                                      ![tid].msg_id = msg_id]
                       ELSE @]

\* mutation of FanOut: the storages are not notified
FanOutClientsOnlyMutant(cl, t, tid) ==
    ClientFanOut(SeqFilter(cl, Clients), Range(cl), t, tid)

\* the loop over app.em.getConnectionList() of
\* handleNotifyInformationLocked: one packet per connection, in list order
RECURSIVE FanOut(_, _, _)
FanOut(cl, t, tid) ==
    IF cl = <<>> THEN <<>>
    ELSE (IF Head(cl) \in Clients
          THEN IF Head(cl) = t.conn
               THEN <<Packet(Head(cl), "AnswerTransactionFinished",
                             t.msg_id, tid, <<>>)>>
               ELSE <<Packet(Head(cl), "InvalidateObjects", 0, tid,
                             t.oid_list)>>
          ELSE IF Head(cl) \in t.uuid_set
               THEN <<Packet(Head(cl), "NotifyUnlockInformation", 0, tid, <<>>)>>
               ELSE <<>>) \o FanOut(Tail(cl), t, tid)

\* ServiceEventHandler.handleNotifyInformationLocked
handleNotifyInformationLocked(m, conn, msg_id, tid) ==
    IF conn \notin Storages \/ m.ltid < tid
    THEN handleUnexpectedPacket(m, conn, msg_id)
    ELSE LET m1 == Reported(m, tid, conn)
         IN  IF tid \notin DOMAIN m.tm
             THEN m1                                \* except KeyError: pass
             ELSE IF ~m.tm[tid].prepared
                  \* "uuid in self._uuid_set" with _uuid_set None: TypeError
                  THEN [m1 EXCEPT !.status = "TypeError"]
                  ELSE LET t == addLockedUUID(m1.tm[tid], conn)
                       IN  IF allLocked(t)
                           THEN [m1 EXCEPT
                                   !.out = @ \o FanOut(m.conns, t, tid),
                                   !.fin = PutTxn(@, tid, t),
                                   !.tm = DelTxn(@, tid)]
                           ELSE [m1 EXCEPT !.tm[tid] = t]

\* StorageServiceHandler.answerInformationLocked
answerInformationLocked(m, conn, msg_id, tid) ==
    IF tid > m.ltid
    THEN handleUnexpectedPacket(m, conn, msg_id)     \* raise ProtocolError
    ELSE LET m1 == Reported(m, tid, conn)
         IN  IF tid \notin DOMAIN m.tm
             THEN m1
             ELSE LET t == lock(m1.tm[tid], conn)
                      m2 == [m1 EXCEPT !.tm[tid] = t]
                  IN  IF t.prepared /\ allLocked(t)
                      THEN _afterLock(m2, tid)
                      ELSE m2

\* a handler of AbortTransaction that forgets to delete the record
AbortKeepsRecordMutant(m, conn, msg_id, tid) ==
    IF conn \notin Clients
    THEN handleUnexpectedPacket(m, conn, msg_id)
    ELSE m

\* ServiceEventHandler.handleAbortTransaction
handleAbortTransaction(m, conn, msg_id, tid) ==
    IF conn \notin Clients
    THEN handleUnexpectedPacket(m, conn, msg_id)
    ELSE [m EXCEPT !.tm = DelTxn(@, tid)]

(***************************************************************************)
(* Part I, actions: one per packet or connection event the master handles. *)
(* Requests come from identified clients, lock replies from identified     *)
(* storages; every input is drawn from the sets above.                     *)
(***************************************************************************)
\* the TIDs of requests and replies: the allocated ones and one beyond
TIDInputs == 1..(ltid + 1)

InService(conn) == mstatus = "service" /\ conn \in Range(conns)

AskNewTID ==
    \E conn \in Clients :
        /\ InService(conn)
        /\ ltid < MaxTID
        \* NEOStorage.tpc_begin holds the storage's transaction lock until
        \* tpc_finish or tpc_abort: one transaction per client at a time
        /\ \A tid \in DOMAIN tm : tm[tid].conn # conn
        /\ MApply(handleAskNewTID(MState, conn, 1))

FinishTransaction ==
    \E conn \in Clients, msg_id \in MsgIds, oid_list \in OidLists,
       tid \in TIDInputs :
        /\ InService(conn)
        \* a client asks to finish the transaction it began
        /\ tid \in DOMAIN tm => tm[tid].conn = conn
        /\ MApply(handleFinishTransaction(MState, conn, msg_id, oid_list, tid))

NotifyInformationLocked ==
    \E conn \in Storages, tid \in TIDInputs :
        /\ InService(conn)
        /\ MApply(handleNotifyInformationLocked(MState, conn, 0, tid))

AnswerInformationLocked ==
    \E conn \in Storages, tid \in TIDInputs :
        /\ InService(conn)
        /\ MApply(answerInformationLocked(MState, conn, 0, tid))

AbortTransaction ==
    \E conn \in Clients, tid \in TIDInputs :
        /\ InService(conn)
        /\ MApply(handleAbortTransaction(MState, conn, 0, tid))

ConnectionClosed ==
    \E conn \in Nodes :
        /\ InService(conn)
        /\ MApply(connectionClosed(MState, conn))

TimeoutExpired ==
    \E conn \in Nodes :
        /\ InService(conn)
        /\ MApply(timeoutExpired(MState, conn))

PeerBroken ==
    \E conn \in Nodes :
        /\ InService(conn)
        /\ MApply(peerBroken(MState, conn))

\* a storage that is connected and expected to lock a transaction answers
\* the LockInformation it was sent
LockReply(conn, tid) ==
    /\ InService(conn)
    /\ tid \in DOMAIN tm
    /\ tm[tid].prepared
    /\ conn \in tm[tid].uuid_set \ tm[tid].locked
    /\ \/ MApply(handleNotifyInformationLocked(MState, conn, 0, tid))
       \/ MApply(answerInformationLocked(MState, conn, 0, tid))

LockReplies ==
    /\ mstatus = "service"
    /\ \E conn \in Storages, tid \in 1..MaxTID : LockReply(conn, tid)

\* a client asks once to finish the transaction it began
FinishOnce ==
    \E conn \in Clients, msg_id \in MsgIds, oid_list \in OidLists,
       tid \in DOMAIN tm :
        /\ InService(conn)
        /\ tm[tid].conn = conn
        /\ ~tm[tid].prepared
        /\ MApply(handleFinishTransaction(MState, conn, msg_id, oid_list, tid))

Row(uuids) == [i \in DOMAIN uuids |->
                  [uuid |-> uuids[i], state |-> UP_TO_DATE_STATE]]

\* the tables the runs start from: two replicas everywhere, or a partition
\* with a single replica
InitialTables ==
    {<<Row(<<"s1", "s2">>), Row(<<"s1", "s2">>)>>,
     <<Row(<<"s1", "s2">>), Row(<<"s2">>)>>}

Table(rows) == [offset \in 0..(NumPartitions - 1) |-> rows[offset + 1]]

MasterStart(rows) ==
    /\ ltid = 0
    /\ tm = <<>>
    /\ nm = [n \in Nodes |-> RUNNING_STATE]
    /\ conns = <<"c1", "s1", "c2", "s2">>
    /\ mpt = Table(rows)
    /\ lptid = 1
    /\ out = <<>>
    /\ mstatus = "service"
    /\ corder = <<"c2", "c1">>
    /\ fin = <<>>
    /\ finished = {}

InitMaster == \E rows \in InitialTables : MasterStart(rows)

NextMaster ==
    \/ AskNewTID
    \/ FinishTransaction
    \/ NotifyInformationLocked
    \/ AnswerInformationLocked
    \/ AbortTransaction
    \/ ConnectionClosed
    \/ TimeoutExpired
    \/ PeerBroken

\* the master with requests and answers in their order
NextFinish ==
    \/ AskNewTID
    \/ FinishOnce
    \/ LockReplies
    \/ AbortTransaction
    \/ ConnectionClosed
    \/ TimeoutExpired
    \/ PeerBroken

\* a begin request on a connection that may have transactions pending: the
\* master keeps one record per TID and puts no limit per connection
BeginOnConnection ==
    \E conn \in Clients :
        /\ InService(conn)
        /\ ltid < MaxTID
        /\ MApply(handleAskNewTID(MState, conn, 1))

\* the sessions of the clients: begin requests and the loss of connections
NextSessions ==
    \/ BeginOnConnection
    \/ ConnectionClosed
    \/ TimeoutExpired
    \/ PeerBroken

(***************************************************************************)
(* PART II : the client transaction engine.  One application thread runs   *)
(* one transaction at a time (its thread context is lv); the storages and  *)
(* the poll thread are the environment: they answer the requests that are  *)
(* pending and put the answers on the thread's queue.                      *)
(***************************************************************************)
\* the object ids the application stores, and the payload of each; "" is
\* the empty payload of a deleted object
Oids == {1, 2}
Payload == <<"a", "">>

\* tryToResolveConflict returns new data or None
ResolverResults == {"None", "r"}

\* serials a storage may report a conflict with for a transaction of the
\* given TID: committed before it, equal to it and later; 0 in an answer is
\* no conflict
ConflictSerials(tid) == ((tid - 1)..(tid + 1)) \ {0}

\* the serial the application's objects are based on
BaseSerial == 0

\* ZODB.ConflictResolution.ResolvedSerial
ResolvedSerial == "rs"

\* the client's partition table: every row has a writable cell on each
\* storage; rows are walked in this order
CellOrder == <<"s1", "s2">>

\* pt.getCellListForOID / getCellListForTID (oid, writable=True)
WritableCells(index) == CellOrder

Put(f, k, v) == [x \in DOMAIN f \cup {k} |-> IF x = k THEN v ELSE f[x]]

Drop(f, k) == [x \in DOMAIN f \ {k} |-> f[x]]

Get(f, k, default) == IF k \in DOMAIN f THEN f[k] ELSE default

Max(S) == CHOOSE x \in S : \A y \in S : y <= x

\* the transaction objects the application passes as handles; 0 is None
Transactions == {1, 2}

\* ThreadContext.clear: the fields of a fresh thread context, and the
\* cache_dict slot the storage handler fills
EmptyContext ==
    [tid |-> 0, txn |-> 0, data_dict |-> <<>>,
     object_serial_dict |-> <<>>, object_stored_counter_dict |-> <<>>,
     conflict_serial_dict |-> <<>>, resolved_conflict_serial_dict |-> <<>>,
     txn_voted |-> FALSE, txn_finished |-> FALSE,
     involved_nodes |-> {}, cache_dict |-> <<>>]

\* what an application call returned or raised: the exception and its
\* arguments, the value returned; for tpc_vote the step it was in, its
\* voted_counter, the storages that answered AskStoreTransaction and the
\* cells it skipped; for tpc_finish the payloads of the objects of the
\* transaction that a storage confirmed; sent is what the call sent to the
\* master and the notifications it sent to storages, in sending order, and
\* called the arguments the callback of tpc_finish was called with;
\* transaction is the handle the call was given, where the model varies it
Outcome(call) ==
    [call |-> call, raised |-> "none", msg |-> "", value |-> <<>>,
     oid |-> 0, serials |-> <<>>, data |-> "", step |-> "",
     voted_counter |-> 0, acked |-> {}, skipped |-> {}, stored |-> <<>>,
     sent |-> <<>>, called |-> <<>>, transaction |-> 0]

\* the client's state as a call finds it, as one value
CState(call) ==
    [lv |-> lv, pend |-> pend, queue |-> queue, up |-> up,
     cache |-> mq_cache, phase |-> cphase, res |-> Outcome(call),
     rlog |-> {}, resolved_oid_set |-> resolved_oid_set, ltid |-> ctid,
     load_lock |-> load_lock]

CApply(c) ==
    /\ lv' = c.lv
    /\ pend' = c.pend
    /\ queue' = c.queue
    /\ up' = c.up
    /\ mq_cache' = c.cache
    /\ cphase' = c.phase
    /\ cres' = c.res
    /\ rlog' = c.rlog
    /\ resolved_oid_set' = c.resolved_oid_set
    /\ ctid' = c.ltid
    /\ load_lock' = c.load_lock
    /\ UNCHANGED <<mvars, tvars, lvars, wvars, xvars>>

Raise(c, exc) == [c EXCEPT !.res.raised = exc]

Raised(c) == c.res.raised # "none"

\* StorageAnswersHandler.answerStoreObject; the transaction context of
\* getHandlerData is the thread context
answerStoreObject(c, uuid, conflict, oid, serial) ==
    IF oid \notin DOMAIN c.lv.object_stored_counter_dict
    THEN Raise(c, "KeyError")
    ELSE
    LET object_stored_counter_dict == c.lv.object_stored_counter_dict[oid]
    IN  IF conflict # 0
        THEN IF conflict \notin
                    Get(c.lv.resolved_conflict_serial_dict, oid, {})
             THEN IF conflict \in DOMAIN object_stored_counter_dict
                  THEN Raise(c, "NEOStorageError")
                  ELSE [c EXCEPT !.lv.conflict_serial_dict =
                            Put(@, oid, Get(@, oid, {}) \cup {conflict})]
             ELSE c
        ELSE IF serial \notin DOMAIN object_stored_counter_dict
             THEN \* store to first storage node
                  IF oid \in DOMAIN c.lv.data_dict
                  THEN [c EXCEPT
                          !.lv.cache_dict = Put(@, oid, c.lv.data_dict[oid]),
                          !.lv.data_dict = Drop(@, oid),
                          !.lv.object_stored_counter_dict[oid] =
                              Put(@, serial, {uuid})]
                  \* except KeyError: assert cache_dict[oid] is None
                  ELSE [Raise(c, IF oid \in DOMAIN c.lv.cache_dict
                                THEN "AssertionError" ELSE "KeyError")
                        EXCEPT !.lv.object_stored_counter_dict[oid] =
                                  Put(@, serial, {})]
             ELSE \* replica: assert oid not in data_dict
                  IF oid \in DOMAIN c.lv.data_dict
                  THEN Raise(c, "AssertionError")
                  ELSE [c EXCEPT
                          !.lv.object_stored_counter_dict[oid][serial] =
                              @ \cup {uuid}]

\* StorageAnswersHandler.answerStoreTransaction
answerStoreTransaction(c, uuid) == c

\* Application._handlePacket for a packet taken from the queue; a packet
\* None (closed connection) is skipped by the callers
_handlePacket(c, p) ==
    IF p.type = "AnswerStoreObject"
    THEN answerStoreObject(c, p.uuid, p.conflict, p.oid, p.serial)
    ELSE c

\* Application._waitAnyMessage(False): handle what the queue holds
RECURSIVE _waitAnyMessage(_)
_waitAnyMessage(c) ==
    IF c.queue = <<>> THEN c
    ELSE LET c1 == _handlePacket([c EXCEPT !.queue = Tail(@)], Head(c.queue))
         IN  IF Raised(c1) THEN c1 ELSE _waitAnyMessage(c1)

StoreRequest(uuid, oid, serial) ==
    [uuid |-> uuid, oid |-> oid, serial |-> serial]

\* the loop "for cell in cell_list" of store: cells without connection are
\* skipped, the others are asked and their node becomes involved
RECURSIVE AskCells(_, _, _, _)
AskCells(c, cells, oid, serial) ==
    IF cells = <<>> THEN c
    ELSE IF Head(cells) \notin c.up
         THEN AskCells(c, Tail(cells), oid, serial)
         ELSE AskCells([c EXCEPT
                          !.pend = @ \cup
                              {StoreRequest(Head(cells), oid, serial)},
                          !.lv.involved_nodes = @ \cup {Head(cells)}],
                       Tail(cells), oid, serial)

\* a packet a call sends outside the store requests: to the master, or a
\* notification to a storage
Sent(type, to, tid) == [type |-> type, to |-> to, tid |-> tid]

\* Application.tpc_begin(transaction); answer tells whether the master
\* answers AnswerBeginTransaction (its handler sets local_var.tid), answers
\* something that leaves local_var.tid None, or the connection closes
tpc_begin(c, transaction, answer) ==
    IF c.lv.txn = transaction THEN c
    ELSE IF c.lv.txn # 0
    THEN [Raise(c, "NeoException") EXCEPT
            !.res.msg = "local_var is not clean in tpc_begin"]
    ELSE LET c1 == [c EXCEPT !.lv.tid = 0,
                             !.res.sent = Append(@,
                                 Sent("AskBeginTransaction", "master", 0))]
         IN  IF answer = "closed" THEN Raise(c1, "ConnectionClosed")
             ELSE IF answer = "other"
             THEN [Raise(c1, "NEOStorageError") EXCEPT
                     !.res.msg = "tpc_begin failed"]
             ELSE [c1 EXCEPT !.lv.tid = c.ltid + 1,
                             !.lv.txn = transaction,
                             !.ltid = c.ltid + 1]

\* store that takes any handle for the active transaction
StoreAnyHandleMutant(c, oid, serial, data, transaction) ==
    _waitAnyMessage(
        AskCells([c EXCEPT
                    !.lv.data_dict = Put(@, oid, data),
                    !.lv.object_stored_counter_dict = Put(@, oid, <<>>),
                    !.lv.object_serial_dict = Put(@, oid, serial)],
                 WritableCells(oid), oid, serial))

\* Application.store(oid, serial, data, version, transaction)
store(c, oid, serial, data, transaction) ==
    IF transaction # c.lv.txn THEN Raise(c, "StorageTransactionError")
    ELSE IF Len(WritableCells(oid)) = 0 THEN Raise(c, "NEOStorageError")
    ELSE _waitAnyMessage(
            AskCells([c EXCEPT
                        !.lv.data_dict = Put(@, oid, data),
                        !.lv.object_stored_counter_dict = Put(@, oid, <<>>),
                        !.lv.object_serial_dict = Put(@, oid, serial)],
                     WritableCells(oid), oid, serial))

\* ConflictError(oid=oid, serials=(tid, serial), data=data)
ConflictError(c, oid, serial, data) ==
    [c EXCEPT !.res.raised = "ConflictError", !.res.oid = oid,
              !.res.serials = <<c.lv.tid, serial>>, !.res.data = data]

\* Application._handleConflicts: the loop over conflict_serial_dict.items(),
\* for the entries of the OIDs from oid upwards; resolver[oid] is what
\* tryToResolveConflict returns for oid; res.value collects the result
RECURSIVE ConflictLoop(_, _, _)
ConflictLoop(c, resolver, oid) ==
    IF oid > Max(Oids) \/ Raised(c) THEN c
    ELSE IF oid \notin DOMAIN c.lv.conflict_serial_dict
    THEN ConflictLoop(c, resolver, oid + 1)
    ELSE
    LET conflict_serial_set == c.lv.conflict_serial_dict[oid]
        resolved_serial_set == Get(c.lv.resolved_conflict_serial_dict, oid, {})
        conflict_serial == Max(conflict_serial_set)
        \* resolved_conflict_serial_dict.setdefault(oid, set())
        c0 == [c EXCEPT !.lv.resolved_conflict_serial_dict =
                            Put(@, oid, resolved_serial_set)]
        \* resolved_serial_set.update(conflict_serial_dict.pop(oid))
        popped == [c0 EXCEPT
                     !.lv.resolved_conflict_serial_dict[oid] =
                         @ \cup conflict_serial_set,
                     !.lv.conflict_serial_dict = Drop(@, oid)]
    IN  IF resolved_serial_set # {}
           /\ conflict_serial <= Max(resolved_serial_set)
        THEN ConflictLoop(popped, resolver, oid + 1)
        ELSE IF oid \notin DOMAIN c.lv.data_dict
        THEN [Raise(c0, "KeyError") EXCEPT !.res.oid = oid]
                                                    \* data = data_dict[oid]
        ELSE
        LET serial == c.lv.object_serial_dict[oid]
            data == c.lv.data_dict[oid]
            failed == ConflictError(
                        [c0 EXCEPT !.lv.data_dict = Drop(@, oid)],
                        oid, serial, data)
        IN  IF conflict_serial <= c.lv.tid
            THEN LET asked == [c0 EXCEPT !.rlog = @ \cup
                                  {<<oid, conflict_serial>>}]
                     failedAsked == [failed EXCEPT !.rlog = asked.rlog]
                 IN  IF resolver[oid] # "None"
                     THEN ConflictLoop(
                            LET c1 == store(
                                        [asked EXCEPT
                                           !.lv.resolved_conflict_serial_dict[oid]
                                               = @ \cup conflict_serial_set,
                                           !.lv.conflict_serial_dict =
                                               Drop(@, oid)],
                                        oid, conflict_serial, resolver[oid],
                                        asked.lv.txn)
                            IN  IF Raised(c1) THEN c1
                                ELSE [c1 EXCEPT !.res.value =
                                                    Append(@, oid)],
                            resolver, oid + 1)
                     ELSE failedAsked
            ELSE failed

_handleConflicts(c, resolver) ==
    ConflictLoop([c EXCEPT !.res.value = <<>>], resolver, 1)

\* waitStoreResponses without the check of the confirming storages
StoredLoopUncheckedMutant(c, oid) == c

\* the loop over object_stored_counter_dict of waitStoreResponses, for the
\* OIDs from oid upwards: the (oid, serial) pairs of the result
RECURSIVE StoredLoop(_, _)
StoredLoop(c, oid) ==
    IF oid > Max(Oids) \/ Raised(c) THEN c
    ELSE IF oid \notin DOMAIN c.lv.object_stored_counter_dict
    THEN StoredLoop(c, oid + 1)
    ELSE IF DOMAIN c.lv.object_stored_counter_dict[oid] = {}
         THEN [Raise(c, "NEOStorageError") EXCEPT
                 !.res.msg = "tpc_store failed"]
         ELSE StoredLoop(
                [c EXCEPT !.res.value = Append(@,
                    <<oid, IF oid \in c.resolved_oid_set
                           THEN ResolvedSerial ELSE c.lv.tid>>)],
                oid + 1)

\* the loop over the cells of the TID of tpc_vote; answers[uuid] tells
\* whether the storage answers AskStoreTransaction or its connection closes
\* meanwhile
RECURSIVE VoteLoop(_, _, _)
VoteLoop(c, cells, answers) ==
    IF cells = <<>> THEN c
    ELSE IF Head(cells) \notin c.up
    THEN VoteLoop([c EXCEPT !.res.skipped = @ \cup {Head(cells)}],
                  Tail(cells), answers)          \* conn is None: continue
    ELSE IF answers[Head(cells)] = "closed"
    THEN VoteLoop([c EXCEPT !.up = @ \ {Head(cells)},
                            !.res.skipped = @ \cup {Head(cells)}],
                  Tail(cells), answers)          \* except ConnectionClosed
    ELSE LET c1 == answerStoreTransaction(
                      [c EXCEPT !.lv.txn_voted = FALSE], Head(cells))
             c2 == [c1 EXCEPT !.lv.involved_nodes = @ \cup {Head(cells)},
                              !.res.acked = @ \cup {Head(cells)}]
         IN  IF ~c2.lv.txn_voted
             THEN [Raise(c2, "NEOStorageError") EXCEPT
                     !.res.msg = "tpc_vote failed"]
             ELSE VoteLoop([c2 EXCEPT !.res.voted_counter = @ + 1],
                           Tail(cells), answers)

\* tpc_vote from the end of the resolution loop: the check of the stored
\* objects, the vote requests and the check of voted_counter
FinishVote(c, answers) ==
    LET c1 == StoredLoop([c EXCEPT !.res.value = <<>>], 1)
        c2 == VoteLoop(c1, WritableCells(c.lv.tid), answers)
    IN  IF Raised(c1) THEN c1
        ELSE IF Raised(c2) THEN c2
        ELSE IF c2.res.voted_counter = 0
             THEN [Raise(c2, "NEOStorageError") EXCEPT
                     !.res.msg = "tpc_vote failed"]
             ELSE c2

\* the cache update of tpc_finish: the loop over local_var.data_dict, for
\* the OIDs from oid upwards
RECURSIVE CacheLoop(_, _)
CacheLoop(c, oid) ==
    IF oid > Max(Oids) THEN c
    ELSE IF oid \notin DOMAIN c.lv.data_dict THEN CacheLoop(c, oid + 1)
    ELSE IF c.lv.data_dict[oid] = ""
         THEN CacheLoop([c EXCEPT !.cache = Drop(@, oid)], oid + 1)
         ELSE CacheLoop([c EXCEPT !.cache =
                            Put(@, oid, <<c.lv.tid, c.lv.data_dict[oid]>>)],
                        oid + 1)

\* tpc_finish between the acquisition and the release of the load lock;
\* answer tells whether the master answers AnswerTransactionFinished (its
\* handler sets txn_finished), answers something that leaves txn_finished
\* as it is, or the connection closes while the client waits; f tells
\* whether a callback is passed
FinishLocked(c, f, answer) ==
    LET c0 == [c EXCEPT
                 !.res.called = IF f THEN Append(@, c.lv.tid) ELSE @,
                 !.res.sent = Append(@,
                     Sent("AskFinishTransaction", "master", c.lv.tid))]
    IN
    IF answer = "closed" THEN Raise(c0, "ConnectionClosed")
    ELSE LET c1 == [c0 EXCEPT
                      !.lv.txn_finished = IF answer = "answered"
                                          THEN TRUE ELSE @,
                      !.res.stored =
                          [oid \in {o \in DOMAIN
                                      c.lv.object_stored_counter_dict :
                                      DOMAIN c.lv.object_stored_counter_dict[o]
                                          # {}} |->
                              IF oid \in DOMAIN c.lv.data_dict
                              THEN c.lv.data_dict[oid]
                              ELSE Get(c.lv.cache_dict, oid, "")]]
         IN  IF ~c1.lv.txn_finished
             THEN [Raise(c1, "NEOStorageError") EXCEPT
                     !.res.msg = "tpc_finish failed"]
             ELSE [CacheLoop(c1, 1) EXCEPT !.lv = EmptyContext,
                                           !.res.value = <<c.lv.tid>>]

\* tpc_finish that releases the load lock only when it returns
FinishKeepsLockMutant(c, transaction, f, answer) ==
    IF c.lv.txn # transaction THEN c
    ELSE LET r == FinishLocked([c EXCEPT !.load_lock = TRUE], f, answer)
         IN  IF Raised(r) THEN r ELSE [r EXCEPT !.load_lock = FALSE]

\* Application.tpc_finish(transaction, f): the body runs under the load
\* lock, which the finally clause releases
tpc_finish(c, transaction, f, answer) ==
    IF c.lv.txn # transaction THEN c
    ELSE [FinishLocked([c EXCEPT !.load_lock = TRUE], f, answer)
          EXCEPT !.load_lock = FALSE]

\* what happens when the pool asks for a connection to a storage it holds
\* none for: the node is not running, has no address, refuses the
\* connection or closes it during the handshake ("none"), accepts the
\* identification ("ready") or answers NotReady ("notready")
DialOutcomes == {"none", "ready", "notready"}

\* ConnectionPool.getConnForNode as one step of the calling thread, for the
\* pool c.up; the connection is returned in res.step ("conn" or "None")
getConnForNode(c, node, dial) ==
    IF node \in c.up THEN [c EXCEPT !.res.step = "conn"]
    ELSE IF dial[node] = "ready"
    THEN [c EXCEPT !.up = @ \cup {node}, !.res.step = "conn"]
    ELSE IF dial[node] = "notready"
    THEN [Raise(c, "NodeNotReady") EXCEPT !.res.step = "None"]
    ELSE [c EXCEPT !.res.step = "None"]

\* the loop over involved_nodes of tpc_abort; notify raises on the
\* connections of broken, which is logged
RECURSIVE AbortLoop(_, _, _, _)
AbortLoop(c, nodes, dial, broken) ==
    IF nodes = <<>> THEN c
    ELSE LET c1 == getConnForNode(c, Head(nodes), dial)
         IN  IF Raised(c1) THEN c1
             ELSE IF c1.res.step = "None" \/ Head(nodes) \in broken
             THEN AbortLoop(c1, Tail(nodes), dial, broken)
             ELSE AbortLoop(
                    [c1 EXCEPT !.res.sent = Append(@,
                        Sent("AbortTransaction", Head(nodes), c.lv.tid))],
                    Tail(nodes), dial, broken)

\* the loop "while pending(queue)" of tpc_abort: the answers queued and
\* the answers still expected are handled as they come, what handling
\* them raises is logged
RECURSIVE EatAnswers(_)
EatAnswers(c) ==
    IF c.queue = <<>> THEN [c EXCEPT !.pend = {}]
    ELSE EatAnswers([_handlePacket([c EXCEPT !.queue = Tail(@)],
                                   Head(c.queue))
                     EXCEPT !.res.raised = "none"])

\* tpc_abort that clears the context whatever handle it is given
AbortAnyHandleMutant(c, transaction, dial, broken) ==
    [c EXCEPT !.lv = EmptyContext]

\* Application.tpc_abort(transaction)
tpc_abort(c, transaction, dial, broken) ==
    IF transaction # c.lv.txn THEN c
    ELSE LET c1 == AbortLoop(c, SeqFilter(CellOrder, c.lv.involved_nodes),
                             dial, broken)
             c2 == IF "master" \in broken THEN c1
                   ELSE [c1 EXCEPT !.res.sent = Append(@,
                            Sent("AbortTransaction", "master", c.lv.tid))]
         IN  IF Raised(c1) THEN c1
             ELSE [EatAnswers(c2) EXCEPT !.lv = EmptyContext,
                                         !.res.step = ""]

\* the loop over the readable cells of undone_tid of undo; info[uuid] tells
\* whether the storage answers AnswerTransactionInformation (whose handler
\* leaves local_var.txn_info at 0), answers that the TID is not found
\* (tidNotFound raises) or the connection closes meanwhile
RECURSIVE UndoLoop(_, _, _, _)
UndoLoop(c, cells, undone_tid, info) ==
    IF cells = <<>>
    THEN [Raise(c, "NEOStorageError") EXCEPT !.res.msg = "undo failed"]
    ELSE IF Head(cells) \notin c.up
    THEN UndoLoop(c, Tail(cells), undone_tid, info)
    ELSE LET c1 == [c EXCEPT !.res.sent = Append(@,
                        Sent("AskTransactionInformation", Head(cells),
                             undone_tid))]
         IN  IF info[Head(cells)] = "closed"
             THEN UndoLoop([c1 EXCEPT !.up = @ \ {Head(cells)}],
                           Tail(cells), undone_tid, info)
             ELSE IF info[Head(cells)] = "notfound"
             THEN Raise(c1, "NEOStorageNotFoundError")
             ELSE [Raise(c1, "NEOStorageError") EXCEPT
                     !.res.msg = "undo failed"]

\* Application.undo(undone_tid, txn, tryToResolveConflict)
undo(c, undone_tid, txn, info) ==
    IF txn # c.lv.txn THEN Raise(c, "StorageTransactionError")
    ELSE UndoLoop(c, CellOrder, undone_tid, info)

\* Application.tpc_vote(transaction) up to waitStoreResponses, which starts
\* with no resolved OID
tpc_vote(c, transaction) ==
    IF transaction # c.lv.txn THEN Raise(c, "StorageTransactionError")
    ELSE [c EXCEPT !.phase = "vote", !.resolved_oid_set = {}]

(***************************************************************************)
(* Part II, actions: the calls of the application, the steps of the calls  *)
(* that wait for answers, and the environment.                             *)
(***************************************************************************)
\* a call that raised leaves the transaction to be aborted
After(c) == [c EXCEPT !.phase = IF Raised(c) THEN "failed" ELSE "ready"]

TpcBegin ==
    \E answer \in {"answered", "closed"} :
        /\ cphase = "ready"
        /\ lv.txn = 0
        /\ ctid < MaxTID
        /\ CApply(tpc_begin(CState("tpc_begin"), 1, answer))

Store ==
    \E oid \in Oids :
        /\ cphase = "ready"
        /\ lv.txn # 0
        /\ oid \notin DOMAIN lv.object_serial_dict
        /\ CApply(After(store(CState("store"), oid, BaseSerial, Payload[oid],
                              lv.txn)))

\* tpc_vote is entered: waitStoreResponses starts with no resolved OID
TpcVote ==
    /\ cphase = "ready"
    /\ lv.txn # 0
    /\ CApply(tpc_vote(CState("tpc_vote"), lv.txn))

\* waitResponses: answers are pending and some have been queued
VoteWait ==
    /\ cphase = "vote"
    /\ queue # <<>>
    /\ CApply(LET c == _waitAnyMessage(
                            [CState("tpc_vote") EXCEPT !.res.step = "wait"])
              IN  IF Raised(c) THEN After(c) ELSE c)

\* nothing is pending: _handleConflicts, and after the last round the end
\* of tpc_vote
VoteResolve ==
    \E resolver \in [Oids -> ResolverResults],
       answers \in [Storages -> {"answered", "closed"}] :
        /\ cphase = "vote"
        /\ queue = <<>>
        /\ pend = {}
        /\ CApply(LET c1 == _handleConflicts(
                                [CState("tpc_vote") EXCEPT
                                    !.res.step = "resolve"], resolver)
                  IN  IF Raised(c1) THEN After(c1)
                      ELSE IF c1.res.value # <<>>
                      THEN [c1 EXCEPT !.resolved_oid_set =
                                          @ \cup Range(c1.res.value)]
                      ELSE After(FinishVote(
                                [c1 EXCEPT !.res.step = "final"], answers)))

TpcFinish ==
    \E answer \in {"answered", "closed"} :
        /\ cphase = "ready"
        /\ lv.txn # 0
        /\ pend = {}
        /\ queue = <<>>
        /\ CApply(After(tpc_finish(CState("tpc_finish"), lv.txn, FALSE,
                                   answer)))

\* tpc_abort of the current transaction when the storages whose connection
\* was lost stay out of reach and every notification passes
TpcAbort ==
    /\ cphase \in {"ready", "failed"}
    /\ lv.txn # 0
    /\ CApply(After(tpc_abort(CState("tpc_abort"), lv.txn,
                              [uuid \in Storages |-> "none"], {})))

\* a storage answers a store request: the poll thread queues the answer
StorageAnswers ==
    \E req \in pend, conflict \in {0} \cup ConflictSerials(lv.tid) :
        /\ req.uuid \in up
        /\ pend' = pend \ {req}
        /\ queue' = Append(queue,
                [type |-> "AnswerStoreObject", uuid |-> req.uuid,
                 conflict |-> conflict, oid |-> req.oid,
                 serial |-> req.serial])
        /\ UNCHANGED <<lv, up, mq_cache, cphase, cres, rlog,
                       resolved_oid_set, ctid, load_lock>>
        /\ UNCHANGED <<mvars, tvars, lvars, wvars, xvars>>

\* StorageEventHandler.connectionLost: the connection leaves the pool and
\* the dispatcher gives up its pending requests
StorageLost ==
    \E uuid \in up :
        /\ up' = up \ {uuid}
        /\ pend' = {req \in pend : req.uuid # uuid}
        /\ UNCHANGED <<lv, queue, mq_cache, cphase, cres, rlog,
                       resolved_oid_set, ctid, load_lock>>
        /\ UNCHANGED <<mvars, tvars, lvars, wvars, xvars>>

(***************************************************************************)
(* Part II, the calls of the application with any transaction object as   *)
(* handle: the active transaction, another one or, before tpc_begin, any. *)
(***************************************************************************)
\* the client's state as a call with the given handle finds it
Called(call, transaction) ==
    [CState(call) EXCEPT !.res.transaction = transaction]

\* a call with a handle that is not the active transaction leaves the
\* application where it was
AfterCall(c, transaction) ==
    IF transaction = lv.txn THEN After(c) ELSE c

BeginWith(transaction) ==
    \E answer \in {"answered", "other", "closed"} :
        /\ lv.txn # 0 \/ ctid < MaxTID
        /\ CApply(tpc_begin(Called("tpc_begin", transaction), transaction,
                            answer))

CallBegin ==
    /\ cphase = "ready"
    /\ \E transaction \in Transactions : BeginWith(transaction)

\* the application stores one object, once in a transaction; the object is
\* new or was committed by an earlier transaction
ApiOids == {1}

StoreWith(transaction) ==
    \E oid \in ApiOids, serial \in {BaseSerial} \cup 1..(lv.tid - 1) :
        /\ transaction # lv.txn \/ oid \notin DOMAIN lv.object_serial_dict
        /\ CApply(AfterCall(store(Called("store", transaction), oid,
                                  serial, Payload[oid], transaction),
                            transaction))

CallStore ==
    /\ cphase = "ready"
    /\ \E transaction \in Transactions : StoreWith(transaction)

VoteWith(transaction) ==
    CApply(tpc_vote(Called("tpc_vote", transaction), transaction))

CallVote ==
    /\ cphase = "ready"
    /\ \E transaction \in Transactions : VoteWith(transaction)

\* the storages answer when the handle is the active transaction
UndoWith(transaction) ==
    \E undone_tid \in {1},
       info \in [Storages -> {"answered", "notfound", "closed"}] :
        /\ transaction = lv.txn \/ info = [uuid \in Storages |-> "answered"]
        /\ CApply(AfterCall(undo(Called("undo", transaction), undone_tid,
                                 transaction, info), transaction))

CallUndo ==
    /\ cphase = "ready"
    /\ \E transaction \in Transactions : UndoWith(transaction)

FinishWith(transaction, f, answer) ==
    /\ pend = {}
    /\ queue = <<>>
    /\ CApply(AfterCall(tpc_finish(Called("tpc_finish", transaction),
                                   transaction, f, answer), transaction))

CallFinish ==
    /\ cphase = "ready"
    /\ \E transaction \in Transactions, f \in BOOLEAN,
          answer \in {"answered", "other", "closed"} :
           FinishWith(transaction, f, answer)

NoDial == [uuid \in Storages |-> "none"]

\* dial matters for the involved storages the pool holds no connection
\* to, broken for the connections tpc_abort notifies on, and both when the
\* handle is the active transaction
AbortInputs(transaction, dial, broken) ==
    IF transaction # lv.txn THEN dial = NoDial /\ broken = {}
    ELSE /\ broken \subseteq lv.involved_nodes \cup {"master"}
         /\ \A uuid \in Storages :
                uuid \in up \/ uuid \notin lv.involved_nodes
                    => dial[uuid] = "none"

AbortWith(transaction, dial, broken) ==
    /\ AbortInputs(transaction, dial, broken)
    /\ CApply(AfterCall(tpc_abort(Called("tpc_abort", transaction),
                                  transaction, dial, broken), transaction))

CallAbort ==
    /\ cphase \in {"ready", "failed"}
    /\ \E transaction \in Transactions,
          dial \in [Storages -> DialOutcomes],
          broken \in SUBSET (Storages \cup {"master"}) :
           AbortWith(transaction, dial, broken)

InitClient ==
    /\ lv = EmptyContext
    /\ pend = {}
    /\ queue = <<>>
    /\ up = Storages
    /\ mq_cache = <<>>
    /\ cphase = "ready"
    /\ cres = Outcome("none")
    /\ rlog = {}
    /\ resolved_oid_set = {}
    /\ ctid = 0
    /\ load_lock = FALSE

NextClient ==
    \/ TpcBegin
    \/ Store
    \/ TpcVote
    \/ VoteWait
    \/ VoteResolve
    \/ TpcFinish
    \/ TpcAbort
    \/ StorageAnswers
    \/ StorageLost

NextApi ==
    \/ CallBegin
    \/ CallStore
    \/ CallVote
    \/ VoteWait
    \/ VoteResolve
    \/ CallUndo
    \/ CallFinish
    \/ CallAbort
    \/ StorageAnswers
    \/ StorageLost

(***************************************************************************)
(* PART III : loads against invalidations and the local tpc_finish.  The   *)
(* thread in load and the thread in tpc_finish exclude each other by the   *)
(* load lock; the poll thread handles the packets of the master one by     *)
(* one: invalidations itself, answers by waking the thread that waits.     *)
(***************************************************************************)
NoLoad == [pc |-> "idle", oid |-> 0, asked_object |-> <<>>, since |-> 0]

NoFinish == [pc |-> "idle", oid |-> 0, tid |-> 0, data_dict |-> <<>>]

NoResult == [oid |-> 0, serial |-> 0, since |-> 0, raised |-> "none"]

\* loadSerial and loadBefore: the thread, and what the call gave: the
\* revision whose data was returned, None, or what was raised
NoRevisionLoad ==
    [pc |-> "idle", call |-> "none", oid |-> 0, serial |-> 0, tid |-> 0,
     asked_object |-> <<>>]

NoRevision ==
    [call |-> "none", oid |-> 0, asked |-> 0, serial |-> 0,
     value |-> "", raised |-> "none"]

\* _load_lock is free
LoadLockFree == loading.pc = "idle" /\ finishing.pc = "idle"

\* _load that caches whatever the flag
LoadAlwaysCachesMutant(cache, oid, asked_object, flag) ==
    Put(cache, oid, <<asked_object[1], asked_object[2]>>)

\* _load(oid, serial, tid, cache=flag) once a storage has answered
\* (start_serial, data): the cache takes the answer when the flag is set,
\* which load does and loadSerial and loadBefore do not
_load(cache, oid, asked_object, flag) ==
    IF flag # 0
    THEN Put(cache, oid, <<asked_object[1], asked_object[2]>>)
    ELSE cache

\* the handler of InvalidateObjects: the entries of the OIDs leave the cache
RECURSIVE invalidateObjects(_, _)
invalidateObjects(cache, oid_list) ==
    IF oid_list = <<>> THEN cache
    ELSE invalidateObjects(Drop(cache, Head(oid_list)), Tail(oid_list))

\* load(oid) finds the object in the cache
LoadCached ==
    \E oid \in Oids :
        /\ LoadLockFree
        /\ oid \in DOMAIN mq_cache
        /\ lres' = [oid |-> oid, serial |-> mq_cache[oid][1],
                    since |-> processed[oid], raised |-> "none"]
        /\ UNCHANGED <<committed, mtid, mconn, loading, finishing, processed>>
        /\ UNCHANGED hvars
        /\ UNCHANGED <<mvars, tvars, cvars, wvars, xvars>>

\* load(oid) misses the cache: _load asks a storage and waits
LoadAsk ==
    \E oid \in Oids :
        /\ LoadLockFree
        /\ oid \notin DOMAIN mq_cache
        /\ loading' = [pc |-> "asked", oid |-> oid, asked_object |-> <<>>,
                       since |-> processed[oid]]
        /\ UNCHANGED <<committed, mtid, mconn, finishing, processed, lres>>
        /\ UNCHANGED hvars
        /\ UNCHANGED <<mvars, tvars, cvars, wvars, xvars>>

\* the storage answers AskObject with the last revision it has, or that it
\* has none; the answer waits on the queue of the loading thread
StorageAnswersObject ==
    /\ loading.pc = "asked"
    /\ loading' = [loading EXCEPT
                      !.pc = "answered",
                      !.asked_object = committed[loading.oid]]
    /\ UNCHANGED <<committed, mtid, mconn, finishing, processed, lres>>
    /\ UNCHANGED hvars
    /\ UNCHANGED <<mvars, tvars, cvars, wvars, xvars>>

\* the loading thread takes the answer: oidNotFound raises, an object is
\* cached and returned
LoadReturn ==
    /\ loading.pc = "answered"
    /\ IF loading.asked_object[1] = 0
       THEN /\ lres' = [oid |-> loading.oid, serial |-> 0,
                        since |-> loading.since,
                        raised |-> "NEOStorageNotFoundError"]
            /\ UNCHANGED mq_cache
       ELSE /\ lres' = [oid |-> loading.oid,
                        serial |-> loading.asked_object[1],
                        since |-> loading.since, raised |-> "none"]
            /\ mq_cache' =
                   _load(mq_cache, loading.oid, loading.asked_object, 1)
    /\ loading' = NoLoad
    /\ UNCHANGED <<committed, mtid, mconn, finishing, processed>>
    /\ UNCHANGED hvars
    /\ UNCHANGED <<mvars, tvars, cothers, wvars, xvars>>

\* the answer of a storage to AskObject(oid, serial, tid): the revision of
\* that serial, or the last revision before tid, as (start_serial, data,
\* end_serial) with end_serial the serial of the next revision or 0 for
\* None; start_serial 0 stands for the error OidNotFound
AskObject(oid, serial, tid) ==
    LET found == IF serial # 0 THEN history[oid] \cap {serial}
                 ELSE {s \in history[oid] : s < tid}
        start == Max(found)
        later == {s \in history[oid] : s > start}
    IN  IF found = {} THEN <<0, "", 0>>
        ELSE <<start, Payload[oid],
               IF later = {} THEN 0
               ELSE CHOOSE s \in later : \A x \in later : s <= x>>

\* loadSerial(oid, serial): _load asks a storage and waits; the load lock
\* is not taken and the cache is not looked at
LoadSerialAsk ==
    \E oid \in Oids, serial \in 1..MaxTID :
        /\ sloading.pc = "idle"
        /\ sloading' = [NoRevisionLoad EXCEPT
                          !.pc = "asked", !.call = "loadSerial",
                          !.oid = oid, !.serial = serial]
        /\ sres' = NoRevision
        /\ UNCHANGED <<committed, mtid, mconn, loading, finishing,
                       processed, lres, history>>
        /\ UNCHANGED <<mvars, tvars, cvars, wvars, xvars>>

\* loadBefore(oid, tid)
LoadBeforeAsk ==
    \E oid \in Oids, tid \in 1..(MaxTID + 1) :
        /\ sloading.pc = "idle"
        /\ sloading' = [NoRevisionLoad EXCEPT
                          !.pc = "asked", !.call = "loadBefore",
                          !.oid = oid, !.tid = tid]
        /\ sres' = NoRevision
        /\ UNCHANGED <<committed, mtid, mconn, loading, finishing,
                       processed, lres, history>>
        /\ UNCHANGED <<mvars, tvars, cvars, wvars, xvars>>

\* the storage answers the AskObject of loadSerial or loadBefore
StorageAnswersRevision ==
    /\ sloading.pc = "asked"
    /\ sloading' = [sloading EXCEPT
                       !.pc = "answered",
                       !.asked_object = AskObject(sloading.oid,
                                                  sloading.serial,
                                                  sloading.tid)]
    /\ UNCHANGED <<committed, mtid, mconn, loading, finishing,
                   processed, lres, history, sres>>
    /\ UNCHANGED <<mvars, tvars, cvars, wvars, xvars>>

\* the thread takes the answer: oidNotFound raises; _load returns (data,
\* start_serial, end_serial) without caching, of which loadSerial returns
\* the data and loadBefore all three, or None when end_serial is None
RevisionReturn ==
    /\ sloading.pc = "answered"
    /\ LET asked_object == sloading.asked_object
           res == [NoRevision EXCEPT
                     !.call = sloading.call, !.oid = sloading.oid,
                     !.asked = sloading.serial + sloading.tid]
       IN  IF asked_object[1] = 0
           THEN /\ sres' = [res EXCEPT
                              !.raised = "NEOStorageNotFoundError"]
                /\ UNCHANGED mq_cache
           ELSE /\ sres' =
                      IF sloading.call = "loadBefore"
                         /\ asked_object[3] = 0
                      THEN [res EXCEPT !.value = "None"]
                      ELSE [res EXCEPT !.serial = asked_object[1],
                                       !.value = asked_object[2]]
                /\ mq_cache' = _load(mq_cache, sloading.oid,
                                     asked_object, 0)
    /\ sloading' = NoRevisionLoad
    /\ UNCHANGED <<committed, mtid, mconn, loading, finishing,
                   processed, lres, history>>
    /\ UNCHANGED <<mvars, tvars, cothers, wvars, xvars>>

\* another client's transaction on oid finishes: the storages hold the new
\* revision and the master sends InvalidateObjects to this client
OtherCommit ==
    \E oid \in Oids :
        /\ mtid < MaxTID
        /\ mtid' = mtid + 1
        /\ committed' = [committed EXCEPT ![oid] = <<mtid + 1, Payload[oid]>>]
        /\ history' = [history EXCEPT ![oid] = @ \cup {mtid + 1}]
        /\ mconn' = Append(mconn, [type |-> "InvalidateObjects",
                                   tid |-> mtid + 1, oid_list |-> <<oid>>])
        /\ UNCHANGED <<loading, finishing, processed, lres>>
        /\ UNCHANGED <<sloading, sres>>
        /\ UNCHANGED <<mvars, tvars, cvars, wvars, xvars>>

\* tpc_finish of a transaction of this client on oid: under the load lock
\* AskFinishTransaction is sent; data_dict holds the object, or no longer
\* holds it when a storage confirmed its store
FinishAsk ==
    \E oid \in Oids :
      \E data_dict \in {<<>>, Put(<<>>, oid, Payload[oid])} :
        /\ LoadLockFree
        /\ mtid < MaxTID
        /\ finishing' = [pc |-> "asked", oid |-> oid, tid |-> 0,
                         data_dict |-> data_dict]
        /\ UNCHANGED <<committed, mtid, mconn, loading, processed, lres>>
        /\ UNCHANGED hvars
        /\ UNCHANGED <<mvars, tvars, cvars, wvars, xvars>>

\* the master finishes the transaction of this client: the storages hold
\* the new revision and the master sends AnswerTransactionFinished
MasterFinishes ==
    /\ finishing.pc = "asked"
    /\ mtid < MaxTID
    /\ mtid' = mtid + 1
    /\ committed' = [committed EXCEPT
                        ![finishing.oid] = <<mtid + 1, Payload[finishing.oid]>>]
    /\ history' = [history EXCEPT ![finishing.oid] = @ \cup {mtid + 1}]
    /\ mconn' = Append(mconn, [type |-> "AnswerTransactionFinished",
                               tid |-> mtid + 1, oid_list |-> <<>>])
    /\ finishing' = [finishing EXCEPT !.pc = "waiting"]
    /\ UNCHANGED <<loading, processed, lres>>
    /\ UNCHANGED <<sloading, sres>>
    /\ UNCHANGED <<mvars, tvars, cvars, wvars, xvars>>

\* the poll thread handles the next packet of the master: an invalidation
\* is applied to the cache, an answer is queued for the waiting thread
PollMaster ==
    /\ mconn # <<>>
    /\ mconn' = Tail(mconn)
    /\ IF Head(mconn).type = "InvalidateObjects"
       THEN /\ mq_cache' = invalidateObjects(mq_cache, Head(mconn).oid_list)
            /\ processed' =
                  [oid \in Oids |->
                      IF oid \in Range(Head(mconn).oid_list)
                      THEN Max({processed[oid], Head(mconn).tid})
                      ELSE processed[oid]]
            /\ UNCHANGED finishing
       ELSE /\ finishing' = [finishing EXCEPT !.pc = "answered",
                                              !.tid = Head(mconn).tid]
            /\ UNCHANGED <<mq_cache, processed>>
    /\ UNCHANGED <<committed, mtid, loading, lres>>
    /\ UNCHANGED hvars
    /\ UNCHANGED <<mvars, tvars, cothers, wvars, xvars>>

\* the thread in tpc_finish takes the answer: the cache update of
\* tpc_finish, then the load lock is released
FinishCache ==
    /\ finishing.pc = "answered"
    /\ mq_cache' = CacheLoop([lv |-> [tid |-> finishing.tid,
                                     data_dict |-> finishing.data_dict],
                              cache |-> mq_cache], 1).cache
    /\ finishing' = NoFinish
    /\ UNCHANGED <<committed, mtid, mconn, loading, processed, lres>>
    /\ UNCHANGED hvars
    /\ UNCHANGED <<mvars, tvars, cothers, wvars, xvars>>

InitLoad ==
    /\ committed = [oid \in Oids |-> <<0, "">>]
    /\ mtid = 0
    /\ mconn = <<>>
    /\ loading = NoLoad
    /\ finishing = NoFinish
    /\ processed = [oid \in Oids |-> 0]
    /\ lres = NoResult
    /\ history = [oid \in Oids |-> {}]
    /\ sloading = NoRevisionLoad
    /\ sres = NoRevision

NextLoad ==
    \/ LoadCached
    \/ LoadAsk
    \/ StorageAnswersObject
    \/ LoadReturn
    \/ LoadSerialAsk
    \/ LoadBeforeAsk
    \/ StorageAnswersRevision
    \/ RevisionReturn
    \/ OtherCommit
    \/ FinishAsk
    \/ MasterFinishes
    \/ PollMaster
    \/ FinishCache

(***************************************************************************)
(* PART IV : the partition table (neo/pt.py).  The table is a value the    *)
(* methods map to a new value; the node manager is read through nodes      *)
(* (node -> state).  id None is 0: every partition table ID is positive.   *)
(***************************************************************************)
DOWN_STATE == "DOWN"

\* protocol.cell_states
CellStates ==
    {UP_TO_DATE_STATE, OUT_OF_DATE_STATE, FEEDING_STATE, DISCARDED_STATE}

\* the partition table IDs of the calls
MaxPTID == 2

\* num_filled_rows of the tables explored
MaxFilledRows == 3

\* Cell.__init__
Cell(node, state) == [uuid |-> node, state |-> state]

\* [[] for x in xrange(num_partitions)]
EmptyRows(np) == [offset \in 0..(np - 1) |-> <<>>]

\* PartitionTable.__init__
PartitionTable(num_partitions) ==
    [id |-> 0, np |-> num_partitions, num_filled_rows |-> 0,
     partition_list |-> EmptyRows(num_partitions), count_dict |-> <<>>]

\* PartitionTable.getID
getID(t) == t.id

\* PartitionTable.clear
clear(t) ==
    [t EXCEPT !.id = 0, !.num_filled_rows = 0,
              !.partition_list = EmptyRows(t.np), !.count_dict = <<>>]

\* PartitionTable.hasOffset
hasOffset(t, offset) ==
    offset \in DOMAIN t.partition_list /\ Len(t.partition_list[offset]) > 0

\* a getCellList whose readable flag keeps the out-of-date cells
GetCellListWritableMutant(t, offset, readable, writable) ==
    LET state_set ==
            CellStates
                \ (IF readable \/ writable THEN {DISCARDED_STATE} ELSE {})
        row == t.partition_list[offset]
    IN  SeqFilter(row, {cell \in Range(row) : cell.state \in state_set})

\* PartitionTable.getCellList
getCellList(t, offset, readable, writable) ==
    LET state_set ==
            (CellStates
                \ (IF readable \/ writable THEN {DISCARDED_STATE} ELSE {}))
                \ (IF readable THEN {OUT_OF_DATE_STATE} ELSE {})
        row == t.partition_list[offset]
    IN  SeqFilter(row, {cell \in Range(row) : cell.state \in state_set})

\* neo.util.u64: the big-endian value of a string of bytes
RECURSIVE u64(_)
u64(id) ==
    IF id = <<>> THEN 0
    ELSE u64(SubSeq(id, 1, Len(id) - 1)) * 256 + id[Len(id)]

\* PartitionTable._getPartitionFromIndex
_getPartitionFromIndex(t, index) == index % t.np

\* PartitionTable.getCellListForTID
getCellListForTID(t, tid, readable, writable) ==
    getCellList(t, _getPartitionFromIndex(t, u64(tid)), readable, writable)

\* PartitionTable.getCellListForOID
getCellListForOID(t, oid, readable, writable) ==
    getCellList(t, _getPartitionFromIndex(t, u64(oid)), readable, writable)

\* self.count_dict[node] = self.count_dict.get(node, 0) + d
CountAdd(count_dict, node, d) ==
    Put(count_dict, node, Get(count_dict, node, 0) + d)

\* row.remove(cell) for the first cell of the node
RECURSIVE RemoveFirst(_, _)
RemoveFirst(row, node) ==
    IF row = <<>> THEN <<>>
    ELSE IF Head(row).uuid = node THEN Tail(row)
         ELSE <<Head(row)>> \o RemoveFirst(Tail(row), node)

\* PartitionTable.removeCell
removeCell(t, offset, node) ==
    LET row == t.partition_list[offset]
        found == {i \in DOMAIN row : row[i].uuid = node}
    IN  IF found = {} THEN t
        ELSE LET cell == row[CHOOSE i \in found : \A j \in found : i <= j]
             IN  [t EXCEPT
                    !.partition_list[offset] = RemoveFirst(row, node),
                    !.count_dict = IF cell.state # FEEDING_STATE
                                   THEN CountAdd(@, node, -1) ELSE @]

\* a setCell that appends the cell without removing the prior cell of the
\* node
SetCellAppendsMutant(t, nodes, offset, node, state) ==
    IF state = DISCARDED_STATE THEN removeCell(t, offset, node)
    ELSE IF nodes[node] \in {BROKEN_STATE, DOWN_STATE} THEN t
    ELSE [t EXCEPT
            !.partition_list[offset] = Append(@, Cell(node, state)),
            !.num_filled_rows =
                IF Len(t.partition_list[offset]) = 0 THEN @ + 1 ELSE @]

\* PartitionTable.setCell
setCell(t, nodes, offset, node, state) ==
    IF state = DISCARDED_STATE THEN removeCell(t, offset, node)
    ELSE IF nodes[node] \in {BROKEN_STATE, DOWN_STATE} THEN t
    ELSE IF Len(t.partition_list[offset]) = 0
    THEN [t EXCEPT
            !.partition_list[offset] = <<Cell(node, state)>>,
            !.count_dict = IF state # FEEDING_STATE
                           THEN CountAdd(@, node, 1) ELSE @,
            !.num_filled_rows = @ + 1]
    ELSE LET t1 == removeCell(t, offset, node)
         IN  [t1 EXCEPT
                !.partition_list[offset] = Append(@, Cell(node, state)),
                !.count_dict = IF state # FEEDING_STATE
                               THEN CountAdd(@, node, 1) ELSE @]

\* what a call on the table leaves: the table and the exception raised
Done(t) == [t |-> t, raised |-> "none"]

Failed(t) == [t |-> t, raised |-> "AssertionError"]

\* "for uuid, state in row" of load
RECURSIVE LoadCells(_, _, _, _)
LoadCells(t, nodes, offset, row) ==
    IF row = <<>> THEN Done(t)
    ELSE LET uuid == Head(row)[1]
             state == Head(row)[2]
         IN  IF uuid \notin DOMAIN nodes THEN Failed(t)
             ELSE LoadCells(setCell(t, nodes, offset, uuid, state), nodes,
                            offset, Tail(row))

\* "for offset, row in row_list" of load
RECURSIVE LoadRows(_, _, _)
LoadRows(t, nodes, row_list) ==
    IF row_list = <<>> THEN Done(t)
    ELSE LET offset == Head(row_list)[1]
             row == Head(row_list)[2]
         IN  IF ~(offset < t.np /\ ~hasOffset(t, offset)) THEN Failed(t)
             ELSE LET r == LoadCells(t, nodes, offset, row)
                  IN  IF r.raised # "none" THEN r
                      ELSE LoadRows(r.t, nodes, Tail(row_list))

\* PartitionTable.load
load(t, nodes, ptid, row_list) ==
    LoadRows(IF ptid # t.id THEN clear([t EXCEPT !.id = ptid]) ELSE t,
             nodes, row_list)

\* "for offset, uuid, state in cell_list" of update
RECURSIVE UpdateCells(_, _, _)
UpdateCells(t, nodes, cell_list) ==
    IF cell_list = <<>> THEN Done(t)
    ELSE LET offset == Head(cell_list)[1]
             uuid == Head(cell_list)[2]
             state == Head(cell_list)[3]
         IN  IF uuid \notin DOMAIN nodes THEN Failed(t)
             ELSE UpdateCells(setCell(t, nodes, offset, uuid, state), nodes,
                              Tail(cell_list))

\* an update that ignores only the deltas of a smaller ID
UpdateAcceptsEqualMutant(t, nodes, ptid, cell_list) ==
    IF ptid < t.id THEN Done(t)
    ELSE UpdateCells([t EXCEPT !.id = ptid], nodes, cell_list)

\* PartitionTable.update
update(t, nodes, ptid, cell_list) ==
    IF ptid <= t.id THEN Done(t)
    ELSE UpdateCells([t EXCEPT !.id = ptid], nodes, cell_list)

\* PartitionTable.filled
filled(t) == t.num_filled_rows = t.np

\* PartitionTable.operational
operational(t, nodes) ==
    /\ filled(t)
    /\ \A offset \in DOMAIN t.partition_list :
           \E i \in DOMAIN t.partition_list[offset] :
               LET cell == t.partition_list[offset][i]
               IN  /\ cell.state \in {UP_TO_DATE_STATE, FEEDING_STATE}
                   /\ nodes[cell.uuid] = RUNNING_STATE

\* DatabaseManager.changePartitionTable: the listed cells replace the rows
\* of the same partition and node, discarded cells delete them, and the
\* partition table ID is stored
RECURSIVE ChangeRows(_, _)
ChangeRows(rows, cell_list) ==
    IF cell_list = <<>> THEN rows
    ELSE LET cell == Head(cell_list)
             others == {r \in rows : ~(r[1] = cell[1] /\ r[2] = cell[2])}
         IN  ChangeRows(IF cell[3] = DISCARDED_STATE THEN others
                        ELSE others \cup {cell}, Tail(cell_list))

changePartitionTable(db, ptid, cell_list) ==
    [ptid |-> ptid, rows |-> ChangeRows(db.rows, cell_list)]

\* HiddenHandler.notifyPartitionChanges (the storage has no replicator)
notifyPartitionChanges(st, nodes, ptid, cell_list) ==
    IF ptid <= getID(st.pt) THEN [st EXCEPT !.raised = "none"]
    ELSE LET r == update(st.pt, nodes, ptid, cell_list)
         IN  IF r.raised # "none"
             THEN [st EXCEPT !.pt = r.t, !.raised = r.raised]
             ELSE [pt |-> r.t, raised |-> "none",
                   dm |-> changePartitionTable(st.dm, ptid, cell_list)]

(***************************************************************************)
(* Part IV, actions: one per call on the table, with the inputs of the     *)
(* call drawn from small sets, and the changes of node states.             *)
(***************************************************************************)
Offsets == 0..(NumPartitions - 1)

PTIDInputs == 1..MaxPTID

\* rows of AnswerPartitionTable / SendPartitionTable: (uuid, state) pairs
RowInputs ==
    {<<<<"s1", UP_TO_DATE_STATE>>>>,
     <<<<"s2", UP_TO_DATE_STATE>>, <<"s1", OUT_OF_DATE_STATE>>>>,
     <<<<"s2", FEEDING_STATE>>>>,
     <<<<"s1", DISCARDED_STATE>>>>}

\* row lists of one or two (offset, row) pairs
RowLists ==
    {<<<<offset, row>>>> : offset \in Offsets, row \in RowInputs}
    \cup {<<<<0, row>>, <<1, <<<<"s1", UP_TO_DATE_STATE>>>>>>>> :
             row \in RowInputs}
    \cup {<<<<1, <<<<"s2", UP_TO_DATE_STATE>>>>>>, <<1, row>>>> :
             row \in RowInputs}

\* cell lists of NotifyPartitionChanges: (offset, uuid, state) triples
CellInputs ==
    {<<offset, uuid, state>> :
        offset \in Offsets, uuid \in Storages, state \in CellStates}

CellLists ==
    {<<cell>> : cell \in CellInputs}
    \cup {<<<<0, "s1", UP_TO_DATE_STATE>>, cell>> :
             cell \in {<<1, "s2", FEEDING_STATE>>,
                       <<0, "s1", DISCARDED_STATE>>,
                       <<0, "s2", OUT_OF_DATE_STATE>>}}

\* the tables explored
WithinBounds(t) == t.num_filled_rows <= MaxFilledRows

\* the state a call leaves
TApply(r) ==
    /\ ptab' = r.t
    /\ praised' = r.raised
    /\ UNCHANGED <<pnm, ready, bpc, dm>>
    /\ UNCHANGED <<mvars, cvars, lvars, wvars, xvars>>

SetCell ==
    \E offset \in Offsets, node \in Storages, state \in CellStates :
        /\ WithinBounds(setCell(ptab, pnm, offset, node, state))
        /\ TApply(Done(setCell(ptab, pnm, offset, node, state)))

RemoveCell ==
    \E offset \in Offsets, node \in Storages :
        /\ hasOffset(ptab, offset)
        /\ TApply(Done(removeCell(ptab, offset, node)))

Load ==
    \E ptid \in PTIDInputs, row_list \in RowLists :
        /\ WithinBounds(load(ptab, pnm, ptid, row_list).t)
        /\ TApply(load(ptab, pnm, ptid, row_list))

Update ==
    \E ptid \in PTIDInputs, cell_list \in CellLists :
        /\ WithinBounds(update(ptab, pnm, ptid, cell_list).t)
        /\ TApply(update(ptab, pnm, ptid, cell_list))

Clear ==
    /\ ptab # PartitionTable(NumPartitions)
    /\ TApply(Done(clear(ptab)))

\* Node.setState, on a notification of the master; one node at a time is
\* not running
SetNodeState ==
    \E node \in Storages,
       state \in {RUNNING_STATE, TEMPORARILY_DOWN_STATE, BROKEN_STATE} :
        /\ \A other \in Storages \ {node} : pnm[other] = RUNNING_STATE
        /\ pnm' = [pnm EXCEPT ![node] = state]
        /\ UNCHANGED <<ptab, praised, ready, bpc, dm>>
        /\ UNCHANGED <<mvars, cvars, lvars, wvars, xvars>>

\* NotifyPartitionChanges handled by a storage
NotifyPartitionChanges ==
    \E ptid \in PTIDInputs, cell_list \in CellLists :
        LET st == notifyPartitionChanges(
                      [pt |-> ptab, raised |-> "none", dm |-> dm], pnm,
                      ptid, cell_list)
        IN  /\ WithinBounds(st.pt)
            /\ ptab' = st.pt
            /\ praised' = st.raised
            /\ dm' = st.dm
            /\ UNCHANGED <<pnm, ready, bpc>>
            /\ UNCHANGED <<mvars, cvars, lvars, wvars, xvars>>

InitTable ==
    /\ ptab = PartitionTable(NumPartitions)
    /\ pnm = [node \in Storages |-> RUNNING_STATE]
    /\ praised = "none"
    /\ ready = FALSE
    /\ bpc = "identified"
    /\ dm = [ptid |-> 0, rows |-> {}]

NextTable ==
    \/ SetCell
    \/ RemoveCell
    \/ Load
    \/ Update
    \/ Clear
    \/ SetNodeState

NextStorage ==
    \/ Update
    \/ NotifyPartitionChanges
    \/ SetNodeState

(***************************************************************************)
(* Part IV, the client's connection to the primary master: one turn of the *)
(* loop "while not ready" of _connectToPrimaryNode, once the client is     *)
(* identified (self.uuid is set, self.pt exists).  The master answers      *)
(* while it is in service, with its nodes and its table.                   *)
(***************************************************************************)
\* the rows of AnswerPartitionTable for the master's table
RowList(pt) ==
    [i \in 1..NumPartitions |->
        <<i - 1, [j \in DOMAIN pt[i - 1] |->
                     <<pt[i - 1][j].uuid, pt[i - 1][j].state>>]>>]

\* AskNodeInformation and its answer: the node manager takes the states
AskNodeInformation ==
    /\ bpc = "identified"
    /\ mstatus = "service"
    /\ pnm' = [node \in Storages |-> nm[node]]
    /\ bpc' = "nodes"
    /\ UNCHANGED <<ptab, praised, ready, dm>>
    /\ UNCHANGED <<mvars, cvars, lvars, wvars, xvars>>

\* AskPartitionTable and its answer: the table is loaded
AskPartitionTable ==
    /\ bpc = "nodes"
    /\ mstatus = "service"
    /\ ptab' = load(ptab, pnm, lptid, RowList(mpt)).t
    /\ praised' = load(ptab, pnm, lptid, RowList(mpt)).raised
    /\ bpc' = "table"
    /\ UNCHANGED <<pnm, ready, dm>>
    /\ UNCHANGED <<mvars, cvars, lvars, wvars, xvars>>

\* ready = self.uuid is not None and self.pt is not None and
\* self.pt.operational(), and the test of the loop
ConnectToPrimaryNode ==
    /\ bpc = "table"
    /\ ready' = operational(ptab, pnm)
    /\ bpc' = IF operational(ptab, pnm) THEN "connected" ELSE "identified"
    /\ UNCHANGED <<ptab, pnm, praised, dm>>
    /\ UNCHANGED <<mvars, cvars, lvars, wvars, xvars>>

\* the master in service and a client connecting to it
NextCluster ==
    \/ BeginOnConnection
    \/ ConnectionClosed
    \/ TimeoutExpired
    \/ PeerBroken
    \/ AskNodeInformation
    \/ AskPartitionTable
    \/ ConnectToPrimaryNode

(***************************************************************************)
(* PART V : the connection pool (neo/client/pool.py) and the waits of the  *)
(* application threads (Application._waitMessage).  Two threads ask the    *)
(* pool for connections and send requests on them; the storages and the    *)
(* poll thread are the environment.  The pool lock is held inside a step   *)
(* and free between steps: a step that needs it is a section of the code   *)
(* that runs under it.                                                     *)
(***************************************************************************)
Threads == {"t1", "t2"}

\* max_pool_size of the pool explored
max_pool_size == 1

\* connections made in a run
MaxConns == 2

\* the storages of the pool: those of the transactions and one more
PoolNodes == Storages \cup {"s3"}

\* requests sent on one connection
MaxMsgId == 2

\* the node manager's view of a storage: running with an address, running
\* without address, or not running
NodeViews == {"RUNNING", "NOADDR", "DOWN"}

IdleThread ==
    [pc |-> "idle", uuid |-> "", conn |-> 0, msg_id |-> 0, result |-> "",
     handled |-> <<>>]

\* the pool and what surrounds it as a handler finds them, as one value
PState ==
    [connection_dict |-> connection_dict, conn |-> pconn,
     dispatcher |-> dispatcher, thread |-> thread, queue |-> tqueue,
     node |-> snode]

PApply(p) ==
    /\ connection_dict' = p.connection_dict
    /\ pconn' = p.conn
    /\ dispatcher' = p.dispatcher
    /\ thread' = p.thread
    /\ tqueue' = p.queue
    /\ snode' = p.node
    /\ UNCHANGED <<mvars, cvars, lvars, tvars, xvars>>

\* a call of a thread returns or raises: result is "None", "conn", the
\* name of the exception, or "answered" for a request
Return(p, t, conn, result) ==
    [p EXCEPT !.thread[t] = [@ EXCEPT !.pc = "idle", !.uuid = "",
                                      !.conn = conn, !.msg_id = 0,
                                      !.result = result]]

\* conn.ask(queue, packet): the next id of the connection, registered with
\* the dispatcher for the queue of the thread
ask(p, t, conn) ==
    [p EXCEPT !.conn[conn].last_id = @ + 1,
              !.dispatcher = @ \cup
                  {[conn |-> conn, msg_id |-> p.conn[conn].last_id + 1,
                    thread |-> t]}]

\* ConnectionPool.removeConnection
removeConnection(p, uuid) ==
    [p EXCEPT !.connection_dict = Drop(@, uuid)]

\* Dispatcher.unregister(conn): every queue with a request pending on the
\* connection gets the packet None for it, and the requests are forgotten
unregister(p, conn) ==
    [p EXCEPT
       !.dispatcher = {e \in @ : e.conn # conn},
       !.queue = [t \in Threads |->
                    IF \E e \in p.dispatcher : e.conn = conn /\ e.thread = t
                    THEN Append(p.queue[t],
                                [conn |-> conn, id |-> 0, type |-> "None"])
                    ELSE p.queue[t]]]

\* StorageEventHandler.connectionLost
storageConnectionLost(p, conn) ==
    unregister(removeConnection(p, p.conn[conn].uuid), conn)

\* not conn.pending() and not dispatcher.registered(conn); what a thread
\* sends leaves the connection at once
Idle(p, conn) == ~\E e \in p.dispatcher : e.conn = conn

\* the first connection of the dictionary is dropped, used or not
DropFirstMutant(p, items) ==
    IF items = <<>> THEN p
    ELSE [p EXCEPT !.connection_dict = Drop(@, p.conn[Head(items)].uuid),
                   !.conn[Head(items)].state = "closed"]

\* ConnectionPool._dropConnections; items is connection_dict.items(), in
\* the order the dictionary gives them
RECURSIVE _dropConnections(_, _)
_dropConnections(p, items) ==
    IF items = <<>> THEN p
    ELSE LET conn == Head(items)
         IN  IF Idle(p, conn)
             THEN LET p1 == [p EXCEPT
                               !.connection_dict =
                                   Drop(@, p.conn[conn].uuid),
                               !.conn[conn].state = "closed"]
                  IN  IF Cardinality(DOMAIN p1.connection_dict)
                             <= max_pool_size
                      THEN p1
                      ELSE _dropConnections(p1, Tail(items))
             ELSE _dropConnections(p, Tail(items))

\* the orders in which a dictionary may give its items
Items(d) ==
    {items \in [1..Cardinality(DOMAIN d) -> Range(d)] :
        Range(items) = Range(d)}

\* getConnForNode under the pool lock: the connection of the pool is
\* returned, or _createNodeConnection drops connections when the pool is
\* over its size and releases the lock for _initNodeConnection
PoolLookup(p, t, items) ==
    LET uuid == p.thread[t].uuid
    IN  IF uuid \in DOMAIN p.connection_dict
        THEN Return(p, t, p.connection_dict[uuid], "conn")
        ELSE [(IF Cardinality(DOMAIN p.connection_dict) > max_pool_size
               THEN _dropConnections(p, items) ELSE p)
              EXCEPT !.thread[t].pc = "init"]

\* ConnectionPool._initNodeConnection up to _waitMessage; connected tells
\* whether the connector could be made
_initNodeConnection(p, t, connected) ==
    LET uuid == p.thread[t].uuid
        conn == Len(p.conn) + 1
    IN  IF p.node[uuid] = "NOADDR" THEN Return(p, t, 0, "None")
        ELSE IF ~connected THEN Return(p, t, 0, "None")
        ELSE ask([p EXCEPT
                    !.conn = Append(@, [uuid |-> uuid, state |-> "open",
                                        last_id |-> 0]),
                    !.thread[t] = [@ EXCEPT !.pc = "handshake",
                                            !.conn = conn, !.msg_id = 1]],
                 t, conn)

\* _createNodeConnection once _initNodeConnection returned a connection:
\* under the pool lock again, the connection enters the pool
PoolInsert(p, t) ==
    Return([p EXCEPT !.connection_dict =
                         Put(@, p.thread[t].uuid, p.thread[t].conn)],
           t, p.thread[t].conn, "conn")

\* _waitMessage taking the None packet of any connection for the end of
\* its own
WaitAnySentinelMutant(p, t) ==
    IF Head(p.queue[t]).type = "None"
    THEN Return([p EXCEPT !.queue[t] = Tail(@)], t, p.thread[t].conn,
                "ConnectionClosed")
    ELSE [p EXCEPT !.queue[t] = Tail(@)]

\* one turn of the loop of Application._waitMessage(target_conn, msg_id):
\* the thread takes the next item of its queue and hands it to
\* _handlePacket, or does not; handled is the item handed.  In
\* _initNodeConnection
\* the answer is handled by the bootstrap handler, whose notReady closes
\* the connection and raises NodeNotReady, and ConnectionClosed makes
\* _initNodeConnection return None
_waitMessage(p, t) ==
    LET item == Head(p.queue[t])
        p0 == [p EXCEPT !.queue[t] = Tail(@), !.thread[t].handled = <<>>]
        handled == [p0 EXCEPT !.thread[t].handled = <<item>>]
        th == p.thread[t]
    IN  IF item.conn = th.conn
        THEN IF item.type = "None"
             THEN IF th.pc = "handshake" THEN Return(p0, t, 0, "None")
                  ELSE Return(p0, t, th.conn, "ConnectionClosed")
             ELSE IF item.id = th.msg_id
             THEN IF th.pc = "handshake"
                  THEN IF item.type = "NotReady"
                       THEN Return([handled EXCEPT
                                      !.conn[th.conn].state = "closed"],
                                   t, 0, "NodeNotReady")
                       ELSE [handled EXCEPT !.thread[t].pc = "insert"]
                  ELSE Return(handled, t, th.conn, "answered")
             ELSE p0
        ELSE IF item.type # "None" THEN handled
        ELSE p0

(***************************************************************************)
(* Part V, actions.                                                        *)
(***************************************************************************)
\* a thread calls getConnForNode(node): a node that is not running gives
\* None, otherwise the thread goes for the pool lock
GetConnForNodeBy(t, uuid) ==
    /\ thread[t].pc = "idle"
    /\ PApply(IF snode[uuid] = "DOWN"
              THEN Return(PState, t, 0, "None")
              ELSE [PState EXCEPT
                      !.thread[t] = [IdleThread EXCEPT !.pc = "lookup",
                                                       !.uuid = uuid]])

GetConnForNode ==
    /\ \E t \in Threads : thread[t].pc = "idle"
    /\ \E t \in Threads, uuid \in Storages : GetConnForNodeBy(t, uuid)

\* one thread alone, with every storage of the pool
GetConnForNodeAlone ==
    /\ thread["t1"].pc = "idle"
    /\ \E uuid \in PoolNodes : GetConnForNodeBy("t1", uuid)

Lookup ==
    \E t \in Threads :
        /\ thread[t].pc = "lookup"
        /\ \E items \in Items(connection_dict) :
               PApply(PoolLookup(PState, t, items))

InitNodeConnectionBy(t, connected, most) ==
    /\ thread[t].pc = "init"
    /\ Len(pconn) < most \/ ~connected
    /\ PApply(_initNodeConnection(PState, t, connected))

InitNodeConnection ==
    /\ \E t \in Threads : thread[t].pc = "init"
    /\ \E t \in Threads, connected \in BOOLEAN :
           InitNodeConnectionBy(t, connected, MaxConns)

\* alone, the thread may connect to each storage of the pool
InitNodeConnectionAlone ==
    /\ thread["t1"].pc = "init"
    /\ \E connected \in BOOLEAN :
           InitNodeConnectionBy("t1", connected, MaxConns + 1)

Insert ==
    \E t \in Threads :
        /\ thread[t].pc = "insert"
        /\ PApply(PoolInsert(PState, t))

WaitMessageBy(t) ==
    /\ thread[t].pc \in {"handshake", "ask"}
    /\ tqueue[t] # <<>>
    /\ PApply(_waitMessage(PState, t))

WaitMessage ==
    /\ \E t \in Threads : tqueue[t] # <<>>
    /\ \E t \in Threads : WaitMessageBy(t)

\* _askStorage on the connection the thread got: conn.ask, then _waitMessage
\* the thread has an open connection on which fewer than most messages
\* were sent
MayAsk(t, most) ==
    /\ thread[t].pc = "idle"
    /\ thread[t].result \in {"conn", "answered"}
    /\ pconn[thread[t].conn].state = "open"
    /\ pconn[thread[t].conn].last_id < most

AskStorageBy(t, most) ==
    /\ MayAsk(t, most)
    /\ PApply(LET p == ask(PState, t, thread[t].conn)
              IN  [p EXCEPT !.thread[t].pc = "ask",
                            !.thread[t].msg_id =
                                p.conn[thread[t].conn].last_id])

AskStorage ==
    /\ \E t \in Threads : thread[t].pc = "idle"
    /\ \E t \in Threads : AskStorageBy(t, MaxMsgId)

\* conn.ask(packet, queue) as store does it: the answer is waited for later
AskLaterBy(t, most) ==
    /\ MayAsk(t, most)
    /\ PApply(ask(PState, t, thread[t].conn))

AskLater ==
    /\ \E t \in Threads : thread[t].pc = "idle"
    /\ \E t \in Threads : AskLaterBy(t, MaxMsgId)

\* the threads with one storage, on whose connections both may ask
GetConnForNodeShared ==
    /\ \E t \in Threads : thread[t].pc = "idle"
    /\ \E t \in Threads : GetConnForNodeBy(t, "s1")

AskStorageShared ==
    /\ \E t \in Threads : thread[t].pc = "idle"
    /\ \E t \in Threads : AskStorageBy(t, MaxMsgId + 1)

AskLaterShared ==
    /\ \E t \in Threads : thread[t].pc = "idle"
    /\ \E t \in Threads : AskLaterBy(t, MaxMsgId + 1)

\* a storage answers a request and the poll thread queues the answer for
\* the thread that waits for it: the identification is accepted or the
\* storage is not ready, any other request gets its answer
StorageReplies ==
    \E e \in dispatcher, type \in {"AcceptIdentification", "NotReady",
                                   "Answer"} :
        /\ pconn[e.conn].state = "open"
        /\ (type = "Answer") <=>
               ~(thread[e.thread].pc = "handshake"
                 /\ thread[e.thread].conn = e.conn)
        /\ PApply([PState EXCEPT
                     !.dispatcher = @ \ {e},
                     !.queue[e.thread] = Append(@,
                         [conn |-> e.conn, id |-> e.msg_id,
                          type |-> type])])

\* a connection to a storage is lost: the poll thread calls connectionLost
ConnectionLostOf(conn) ==
    /\ conn \in DOMAIN pconn
    /\ pconn[conn].state = "open"
    /\ PApply(storageConnectionLost(
                [PState EXCEPT !.conn[conn].state = "closed"], conn))

ConnectionLost ==
    /\ pconn # <<>>
    /\ \E conn \in DOMAIN pconn : ConnectionLostOf(conn)

\* the master tells the client of a change of a storage node, here before
\* the threads start; one node at a time is out of order
NodeChanges ==
    \E uuid \in Storages, view \in NodeViews :
        /\ pconn = <<>>
        /\ \A t \in Threads : thread[t] = IdleThread
        /\ \A other \in Storages \ {uuid} : snode[other] = "RUNNING"
        /\ view # snode[uuid]
        /\ PApply([PState EXCEPT !.node[uuid] = view])

InitPool ==
    /\ connection_dict = <<>>
    /\ pconn = <<>>
    /\ dispatcher = {}
    /\ thread = [t \in Threads |-> IdleThread]
    /\ tqueue = [t \in Threads |-> <<>>]
    /\ snode = [uuid \in PoolNodes |-> "RUNNING"]

NextPool ==
    \/ GetConnForNode
    \/ Lookup
    \/ InitNodeConnection
    \/ Insert
    \/ WaitMessage
    \/ AskStorage
    \/ AskLater
    \/ StorageReplies
    \/ ConnectionLost
    \/ NodeChanges

NextPoolShared ==
    \/ GetConnForNodeShared
    \/ Lookup
    \/ InitNodeConnection
    \/ Insert
    \/ WaitMessage
    \/ AskStorageShared
    \/ AskLaterShared
    \/ StorageReplies
    \/ ConnectionLost

NextPoolAlone ==
    \/ GetConnForNodeAlone
    \/ Lookup
    \/ InitNodeConnectionAlone
    \/ Insert
    \/ WaitMessage
    \/ AskLater
    \/ StorageReplies

(***************************************************************************)
(* PART VI : the loop of Application._load over the readable cells of an   *)
(* object.  Each cell gives what the attempt on it comes to: no            *)
(* connection, a connection closed under the request, or an answer, which  *)
(* may be the object, the object damaged, or another object.               *)
(***************************************************************************)
\* cells tried by one load
MaxCells == 3

\* makeChecksum of a payload, as a value that differs for different data
makeChecksum(data) == <<"checksum", data>>

\* what an attempt on a cell of an object that exists comes to
CellOutcomes == {"object", "wrong checksum", "wrong oid", "closed", "none"}

\* local_var.asked_object without an answer: 0 as _load sets it before its
\* loop, -1 once an answer was refused
NotAsked == [got |-> 0]

Refused == [got |-> -1]

\* the AnswerObject of a cell to AskObject(oid, None, None), as the handler
\* leaves it in asked_object
AnswerObject(oid, outcome) ==
    [got |-> 1,
     noid |-> IF outcome = "wrong oid" THEN oid + 1 ELSE oid,
     start_serial |-> 1, end_serial |-> 0, compression |-> 0,
     checksum |-> makeChecksum(Payload[oid]),
     data |-> IF outcome = "wrong checksum" THEN "damaged"
              ELSE Payload[oid]]

\* _load whose loop ends at the first answer, whatever the answer is
LoadFirstAnswerMutant(oid, asked_object, cell_list) ==
    LET answered(cell) == cell \notin {"none", "closed"}
        answers == SelectSeq(cell_list, answered)
    IN  IF answers = <<>> THEN asked_object
        ELSE IF Head(answers) = "object" THEN AnswerObject(oid, "object")
        ELSE Refused

\* the loop of _load over the cells
RECURSIVE LoadFor(_, _, _)
LoadFor(oid, asked_object, cell_list) ==
    IF cell_list = <<>> THEN asked_object
    ELSE LET cell == Head(cell_list)
             answer == AnswerObject(oid, cell)
         IN  IF cell = "none"
             THEN LoadFor(oid, asked_object, Tail(cell_list))
             ELSE IF cell = "closed"
             THEN LoadFor(oid, asked_object, Tail(cell_list))
             ELSE IF answer.noid # oid
             THEN LoadFor(oid, Refused, Tail(cell_list))
             ELSE IF answer.checksum # makeChecksum(answer.data)
             THEN LoadFor(oid, Refused, Tail(cell_list))
             ELSE answer

\* _load(oid, cache=1) on the cells given: what it raises or returns and
\* what it stores in the cache
LoadOver(oid, cell_list) ==
    LET asked_object == LoadFor(oid, NotAsked, cell_list)
        none == [raised |-> "none", data |-> "", serial |-> 0,
                 cached |-> <<>>]
    IN  IF Len(cell_list) = 0
        THEN [none EXCEPT !.raised = "NEOStorageNotFoundError"]
        ELSE IF asked_object = NotAsked
        THEN [none EXCEPT !.raised = "NEOStorageNotFoundError"]
        ELSE IF asked_object = Refused
        THEN [none EXCEPT !.raised = "NEOStorageNotFoundError"]
        ELSE [none EXCEPT
                !.data = asked_object.data,
                !.serial = asked_object.start_serial,
                !.cached = <<asked_object.start_serial, asked_object.data>>]

\* a load of an object whose readable cells come to the outcomes given, in
\* the order in which shuffle and sort left them
LoadTries ==
    \E oid \in Oids, n \in 0..MaxCells :
        \E cell_list \in [1..n -> CellOutcomes] :
            /\ ltry' = [oid |-> oid, cell_list |-> cell_list,
                        res |-> LoadOver(oid, cell_list)]
            /\ OnlyTries

InitTries ==
    ltry = [oid |-> 0, cell_list |-> <<>>,
            res |-> [raised |-> "none", data |-> "", serial |-> 0,
                     cached |-> <<>>]]

NextTries == LoadTries

(***************************************************************************)
(* PART VII : the transaction lock of NEOStorage (neo/client/              *)
(* NEOStorage.py).  Each thread has its own local_var.txn; the lock is     *)
(* one threading.Lock of the storage object, which is not reentrant and    *)
(* which any thread may release.                                           *)
(***************************************************************************)
IdleCaller == [pc |-> "idle", txn |-> 0, want |-> 0, raised |-> "none"]

\* Application.tpc_begin on the local_var.txn of the calling thread: the
\* handle the thread holds afterwards and what was raised; answer tells
\* whether the master gave a TID
AppBegin(txn, transaction, answer) ==
    IF txn = transaction THEN [txn |-> txn, raised |-> "none"]
    ELSE IF txn # 0 THEN [txn |-> txn, raised |-> "NeoException"]
    ELSE IF answer # "answered"
    THEN [txn |-> txn, raised |-> "NEOStorageError"]
    ELSE [txn |-> transaction, raised |-> "none"]

\* Application.tpc_finish and tpc_abort on local_var.txn: nothing for a
\* handle that is not the thread's; tpc_abort clears the context, and
\* tpc_finish does unless it raises
AppEnd(txn, transaction, call, answer) ==
    IF txn # transaction THEN [txn |-> txn, raised |-> "none"]
    ELSE IF call = "tpc_finish" /\ answer # "answered"
    THEN [txn |-> txn, raised |-> "NEOStorageError"]
    ELSE [txn |-> 0, raised |-> "none"]

\* NEOStorage.tpc_begin once _txn_lock_acquire() returned
NEOStorageBegun(t, transaction, answer) ==
    LET r == AppBegin(nthread[t].txn, transaction, answer)
    IN  /\ nlock' = TRUE
        /\ nthread' = [nthread EXCEPT
                         ![t] = [pc |-> "idle", txn |-> r.txn, want |-> 0,
                                 raised |-> r.raised]]

\* NEOStorage.tpc_begin: the thread takes the lock, or waits for it
NEOStorageTpcBegin ==
    /\ \E t \in Threads : nthread[t].pc = "idle"
    /\ \E t \in Threads, transaction \in Transactions,
          answer \in {"answered", "other"} :
           /\ nthread[t].pc = "idle"
           /\ IF nlock
              THEN /\ nthread' = [nthread EXCEPT
                                    ![t] = [@ EXCEPT !.pc = "acquire",
                                                     !.want = transaction,
                                                     !.raised = "none"]]
                   /\ UNCHANGED nlock
              ELSE NEOStorageBegun(t, transaction, answer)
           /\ OnlyLock

\* a thread that waited for the lock gets it
NEOStorageAcquires ==
    /\ ~nlock
    /\ \E t \in Threads, answer \in {"answered", "other"} :
           /\ nthread[t].pc = "acquire"
           /\ NEOStorageBegun(t, nthread[t].want, answer)
           /\ OnlyLock

\* NEOStorage.tpc_finish and tpc_abort: the call of the application, then
\* _txn_lock_release() in the finally clause, which raises when the lock
\* is not held
NEOStorageEnds(t, transaction, call, answer) ==
    LET r == AppEnd(nthread[t].txn, transaction, call, answer)
    IN  /\ nthread[t].pc = "idle"
        /\ nlock' = FALSE
        /\ nthread' = [nthread EXCEPT
                         ![t] = [pc |-> "idle", txn |-> r.txn, want |-> 0,
                                 raised |-> IF nlock THEN r.raised
                                            ELSE "thread.error"]]
        /\ OnlyLock

NEOStorageTpcFinish ==
    /\ \E t \in Threads : nthread[t].pc = "idle"
    /\ \E t \in Threads, transaction \in Transactions,
          answer \in {"answered", "other"} :
           NEOStorageEnds(t, transaction, "tpc_finish", answer)

NEOStorageTpcAbort ==
    /\ \E t \in Threads : nthread[t].pc = "idle"
    /\ \E t \in Threads, transaction \in Transactions :
           NEOStorageEnds(t, transaction, "tpc_abort", "answered")

InitLock ==
    /\ nlock = FALSE
    /\ nthread = [t \in Threads |-> IdleCaller]

NextLock ==
    \/ NEOStorageTpcBegin
    \/ NEOStorageAcquires
    \/ NEOStorageTpcFinish
    \/ NEOStorageTpcAbort

(***************************************************************************)
(* Part VIII: waitResponses and the store timeout hook.  A thread sends    *)
(* its stores without waiting and then calls waitResponses; the poll       *)
(* thread queues the answers and runs onStoreTimeout.                      *)
(***************************************************************************)
\* number of requests sent on the connection in a run
MaxAsks == 3

\* Dispatcher.register(conn, msg_id, queue)
register(table, msg_id, q) ==
    [i \in DOMAIN table \cup {msg_id} |->
        IF i = msg_id THEN q ELSE table[i]]

\* message_table.pop(msg_id)
Popped(table, msg_id) == [i \in DOMAIN table \ {msg_id} |-> table[i]]

\* Dispatcher.pending(queue): the queue is not empty or an answer is
\* expected on it
pending(t) ==
    \/ rqueue[t] # <<>>
    \/ \E msg_id \in DOMAIN message_table : message_table[msg_id] = t

\* the answer to a request
AnswerTo(msg_id) ==
    [type |-> IF requests[msg_id] = "AskStoreObject" THEN "AnswerStoreObject"
              ELSE "AnswerHasLock",
     id |-> msg_id]

ForgottenPacket(msg_id) == [type |-> "ForgottenPacket", id |-> msg_id]

\* Connection.ask(packet, queue=queue): the request gets the next message
\* id of the connection and is registered before it is sent
Ask(packet, q) ==
    LET msg_id == Len(requests) + 1
    IN  /\ requests' = Append(requests, packet)
        /\ unanswered' = unanswered \cup {msg_id}
        /\ message_table' = register(message_table, msg_id, q)

\* the requests the threads may still send: the hook in progress sends one
AsksLeft == MaxAsks - Len(requests) - Len(forgetting)

\* Application.store: conn.ask(p, on_timeout=on_timeout, queue=queue)
StoreAsks ==
    /\ AsksLeft > 0
    /\ \E t \in Threads :
           /\ waiter[t].pc = "store"
           /\ Ask("AskStoreObject", t)
           /\ UNCHANGED <<rqueue, waiter, forgetting, stored, forgotten>>
           /\ OnlyWait

\* tpc_vote: waitStoreResponses calls waitResponses
WaitResponsesCalled ==
    /\ \E t \in Threads :
           /\ waiter[t].pc = "store"
           /\ waiter' = [waiter EXCEPT ![t].pc = "waitResponses"]
           /\ UNCHANGED <<requests, unanswered, message_table, rqueue,
                          forgetting, stored, forgotten>>
           /\ OnlyWait

\* Application.waitResponses: while pending(queue): _waitAnyMessage()
WaitResponsesLoop ==
    /\ \E t \in Threads :
           /\ waiter[t].pc = "waitResponses"
           /\ waiter' = [waiter EXCEPT
                           ![t] = IF pending(t)
                                  THEN [pc |-> "_waitAnyMessage",
                                        block |-> TRUE]
                                  ELSE [pc |-> "return", block |-> TRUE]]
           /\ UNCHANGED <<requests, unanswered, message_table, rqueue,
                          forgetting, stored, forgotten>>
           /\ OnlyWait

\* Application.waitResponses returns
WaitResponsesReturns ==
    /\ \E t \in Threads :
           /\ waiter[t].pc = "return"
           /\ waiter' = [waiter EXCEPT ![t].pc = "returned"]
           /\ UNCHANGED <<requests, unanswered, message_table, rqueue,
                          forgetting, stored, forgotten>>
           /\ OnlyWait

\* Application._waitAnyMessage: while pending(queue)
WaitAnyLoop ==
    /\ \E t \in Threads :
           /\ waiter[t].pc = "_waitAnyMessage"
           /\ waiter' = [waiter EXCEPT
                           ![t].pc = IF pending(t) THEN "get"
                                     ELSE "waitResponses"]
           /\ UNCHANGED <<requests, unanswered, message_table, rqueue,
                          forgetting, stored, forgotten>>
           /\ OnlyWait

\* Application._waitAnyMessage: get(block), then the None and forgotten
\* packets are skipped and any other is handled; Empty ends the loop
WaitAnyGets ==
    /\ \E t \in Threads :
           /\ waiter[t].pc = "get"
           /\ rqueue[t] # <<>> \/ ~waiter[t].block
    /\ \E t \in Threads :
           /\ waiter[t].pc = "get"
           /\ rqueue[t] # <<>> \/ ~waiter[t].block
           /\ IF rqueue[t] = <<>>
              THEN /\ waiter' = [waiter EXCEPT ![t].pc = "waitResponses"]
                   /\ UNCHANGED <<rqueue, stored>>
              ELSE LET packet == Head(rqueue[t])
                   IN  /\ rqueue' = [rqueue EXCEPT ![t] = Tail(@)]
                       /\ IF packet.type = "ForgottenPacket"
                          THEN /\ waiter' = [waiter EXCEPT
                                               ![t].pc = "_waitAnyMessage"]
                               /\ UNCHANGED stored
                          ELSE /\ waiter' = [waiter EXCEPT
                                               ![t] = [pc |-> "_waitAnyMessage",
                                                       block |-> FALSE]]
                               /\ stored' =
                                      IF packet.type = "AnswerStoreObject"
                                      THEN stored \cup {packet.id}
                                      ELSE stored
           /\ UNCHANGED <<requests, unanswered, message_table, forgetting,
                          forgotten>>
           /\ OnlyWait

\* the poll thread reads an answer: Dispatcher.dispatch queues it for the
\* thread that expects it and drops it when NOBODY does
DispatcherDispatch ==
    /\ forgetting = <<>>
    /\ \E msg_id \in unanswered :
           /\ unanswered' = unanswered \ {msg_id}
           /\ message_table' = Popped(message_table, msg_id)
           /\ rqueue' = IF message_table[msg_id] = "NOBODY" THEN rqueue
                        ELSE [rqueue EXCEPT
                                ![message_table[msg_id]] =
                                    Append(@, AnswerTo(msg_id))]
           /\ UNCHANGED <<requests, waiter, forgetting, stored, forgotten>>
           /\ OnlyWait

\* Application.onStoreTimeout, called by the poll thread when a store was
\* not answered in time: queue = self.dispatcher.forget(conn, msg_id),
\* which puts a ForgottenPacket in the queue and has NOBODY expect the
\* answer
StoreTimesOut ==
    /\ forgetting = <<>>
    /\ AsksLeft > 0
    /\ \E msg_id \in DOMAIN message_table :
           /\ requests[msg_id] = "AskStoreObject"
           /\ message_table[msg_id] # "NOBODY"
           /\ forgetting' = <<message_table[msg_id]>>
           /\ rqueue' = [rqueue EXCEPT
                           ![message_table[msg_id]] =
                               Append(@, ForgottenPacket(msg_id))]
           /\ message_table' = [message_table EXCEPT ![msg_id] = "NOBODY"]
           /\ forgotten' = forgotten \cup {msg_id}
           /\ UNCHANGED <<requests, unanswered, waiter, stored>>
           /\ OnlyWait

\* Application.onStoreTimeout, its second call:
\* conn.ask(Packets.AskHasLock(tid, oid), timeout=5, queue=queue)
HookAsks ==
    /\ forgetting # <<>>
    /\ Ask("AskHasLock", Head(forgetting))
    /\ forgetting' = <<>>
    /\ UNCHANGED <<rqueue, waiter, stored, forgotten>>
    /\ OnlyWait

InitWait ==
    /\ requests = <<>>
    /\ unanswered = {}
    /\ message_table = <<>>
    /\ rqueue = [t \in Threads |-> <<>>]
    /\ waiter = [t \in Threads |-> [pc |-> "store", block |-> TRUE]]
    /\ forgetting = <<>>
    /\ stored = {}
    /\ forgotten = {}

NextWait ==
    \/ StoreAsks
    \/ WaitResponsesCalled
    \/ WaitResponsesLoop
    \/ WaitResponsesReturns
    \/ WaitAnyLoop
    \/ WaitAnyGets
    \/ DispatcherDispatch
    \/ StoreTimesOut
    \/ HookAsks

(***************************************************************************)
(* Part IX: the idle events.  A request is sent on a connection with a     *)
(* timeout and an additional timeout; the poll thread checks the idle      *)
(* events in _poll with the time it reads.                                 *)
(***************************************************************************)
\* seconds that may pass between two readings of time()
MaxStep == 2

\* the seconds of IdleEvent.__call__: the timeout of a ping and what a ping
\* takes from the additional timeout
PingDelay == 5

EConns == {1, 2}
Timeouts == {1, 5}
AdditionalTimeouts == {0, 5, 7, 11}

\* IdleEvent.__init__ at time t
IdleEvent(conn, msg_id, t, timeout, additional_timeout) ==
    [conn |-> conn, id |-> msg_id, time |-> t + timeout,
     critical_time |-> t + timeout + additional_timeout,
     additional_timeout |-> additional_timeout]

\* the event manager and its connections as IdleEvent.__call__ finds them
EState == [event_list |-> event_list, econn |-> econn]

\* Connection.expectMessage(msg_id, timeout, additional_timeout) at time t
expectMessage(em, conn, msg_id, t, timeout, additional_timeout) ==
    [em EXCEPT !.event_list =
                   Append(@, IdleEvent(conn, msg_id, t, timeout,
                                       additional_timeout))]

\* Connection.close(): the idle events of the connection are removed
closeIdle(em, conn) ==
    [em EXCEPT !.event_list = SelectSeq(@, LAMBDA e : e.conn # conn),
               !.econn[conn].state = "closed"]

\* event_list.remove(event): the first occurrence, if there is one
RECURSIVE RemoveEvent(_, _)
RemoveEvent(list, event) ==
    IF list = <<>> THEN <<>>
    ELSE IF Head(list) = event THEN Tail(list)
    ELSE <<Head(list)>> \o RemoveEvent(Tail(list), event)

\* an event past its timeout is armed again as it was
RearmSameMutant(em, event, t) ==
    IF t > event.time
    THEN [em |-> expectMessage(em, event.conn, event.id, t, PingDelay,
                               event.additional_timeout),
          fired |-> TRUE]
    ELSE [em |-> em, fired |-> FALSE]

\* IdleEvent.__call__(t): what it does and what it returns
IdleEventCall(em, event, t) ==
    IF t > event.critical_time
    THEN [em |-> [closeIdle(em, event.conn) EXCEPT
                    !.econn[event.conn].expired = TRUE],
          fired |-> TRUE]
    ELSE IF t > event.time
    THEN [em |-> IF event.additional_timeout > PingDelay
                 THEN [expectMessage(em, event.conn, event.id, t, PingDelay,
                                     event.additional_timeout - PingDelay)
                       EXCEPT !.econn[event.conn].pings = @ + 1]
                 ELSE expectMessage(em, event.conn, event.id, t,
                                    event.additional_timeout, 0),
          fired |-> TRUE]
    ELSE [em |-> em, fired |-> FALSE]

\* event_list.sort(key = lambda event: event.getTime()): the sort is stable
RECURSIVE SortEvents(_)
SortEvents(list) ==
    IF list = <<>> THEN <<>>
    ELSE LET first == CHOOSE i \in DOMAIN list :
                          \A j \in DOMAIN list :
                              \/ list[i].time < list[j].time
                              \/ list[i].time = list[j].time /\ i <= j
         IN  <<list[first]>>
                 \o SortEvents([k \in 1..(Len(list) - 1) |->
                                   IF k < first THEN list[k]
                                   ELSE list[k + 1]])

\* _poll: while event_list: event = event_list[0]; if event(t): remove it,
\* else: break
RECURSIVE CheckEvents(_, _)
CheckEvents(em, t) ==
    IF em.event_list = <<>> THEN em
    ELSE LET event == Head(em.event_list)
             r == IdleEventCall(em, event, t)
         IN  IF r.fired
             THEN CheckEvents([r.em EXCEPT
                                 !.event_list = RemoveEvent(@, event)], t)
             ELSE em

\* the end of EpollEventManager._poll with t the time it reads: the idle
\* events are checked when there are some, once a second at most
PollAt(t) ==
    /\ event_list # <<>>
    /\ now' = t
    /\ IF t - prev_time >= 1
       THEN LET em == CheckEvents([EState EXCEPT
                                     !.event_list = SortEvents(@)], t)
            IN  /\ prev_time' = t
                /\ event_list' = em.event_list
                /\ econn' = em.econn
       ELSE UNCHANGED <<prev_time, event_list, econn>>
    /\ OnlyTimers

\* _poll called again before the clock moved
PollAtOnce ==
    /\ event_list # <<>>
    /\ PollAt(now)

\* _poll called later
PollLater ==
    /\ event_list # <<>>
    /\ \E t \in (now + 1)..(now + MaxStep) : PollAt(t)

\* a request is sent on a connection: Connection.ask calls expectMessage
AskWithTimeout ==
    /\ \E conn \in EConns : econn[conn].state = "new"
    /\ \E conn \in EConns, timeout \in Timeouts,
          additional_timeout \in AdditionalTimeouts :
           /\ econn[conn].state = "new"
           /\ event_list' = expectMessage(EState, conn, 1, now, timeout,
                                          additional_timeout).event_list
           /\ econn' = [econn EXCEPT ![conn].state = "asked"]
           /\ UNCHANGED <<now, prev_time>>
           /\ OnlyTimers

\* the answer to the request arrives: its idle event is removed
AnswerInTime ==
    /\ \E conn \in EConns : econn[conn].state = "asked"
    /\ \E conn \in EConns :
           /\ econn[conn].state = "asked"
           /\ event_list' = SelectSeq(event_list, LAMBDA e : e.conn # conn)
           /\ econn' = [econn EXCEPT ![conn].state = "answered"]
           /\ UNCHANGED <<now, prev_time>>
           /\ OnlyTimers

InitTimers ==
    /\ now = 0
    /\ prev_time = 0
    /\ event_list = <<>>
    /\ econn = [conn \in EConns |->
                   [state |-> "new", pings |-> 0, expired |-> FALSE]]

NextTimers ==
    \/ AskWithTimeout
    \/ AnswerInTime
    \/ PollAtOnce
    \/ PollLater

(***************************************************************************)
(* Part X: a storage node.  Clients store objects, which store-locks them  *)
(* or delays the store; the master sends LockInformation when the client   *)
(* asks to finish and UnlockInformation when every storage has locked.     *)
(***************************************************************************)
StorageTIDs == {1, 2}
StorageOIDs == {1, 2}

\* the storage as a handler finds it
SState ==
    [transaction_dict |-> transaction_dict, load_lock_dict |-> load_lock_dict,
     store_lock_dict |-> store_lock_dict, event_queue |-> event_queue,
     dm |-> sdm, answer |-> <<>>, executions |-> executions]

SApply(app) ==
    /\ transaction_dict' = app.transaction_dict
    /\ load_lock_dict' = app.load_lock_dict
    /\ store_lock_dict' = app.store_lock_dict
    /\ event_queue' = app.event_queue
    /\ sdm' = app.dm
    /\ sanswer' = app.answer
    /\ executions' = app.executions

\* the handling of AskStoreObject(oid, tid): an object locked by an earlier
\* transaction delays the store, one locked by a later transaction is a
\* conflict, and otherwise the object is store-locked and joins the
\* transaction
handleAskStoreObject(app, tid, oid) ==
    IF oid \in DOMAIN app.store_lock_dict
    THEN IF app.store_lock_dict[oid] < tid
         THEN [app EXCEPT !.event_queue = Append(@, [tid |-> tid, oid |-> oid])]
         ELSE [app EXCEPT !.answer = <<"AnswerStoreObject", 1, oid>>]
    ELSE [app EXCEPT
            !.store_lock_dict = Put(@, oid, tid),
            !.transaction_dict =
                Put(@, tid, Append(Get(@, tid, <<>>), oid)),
            !.answer = <<"AnswerStoreObject", 0, oid>>]

\* app.executeQueuedEvents(): the delayed events are handled again, in
\* their order
RECURSIVE RunEvents(_, _)
RunEvents(app, events) ==
    IF events = <<>> THEN app
    ELSE RunEvents(handleAskStoreObject(app, Head(events).tid,
                                        Head(events).oid),
                   Tail(events))

executeQueuedEvents(app) ==
    RunEvents([app EXCEPT !.event_queue = <<>>, !.executions = @ + 1],
              app.event_queue)

\* MasterOperationHandler.handleLockInformation
handleLockInformation(app, tid) ==
    LET answered == [app EXCEPT !.answer = <<"AnswerInformationLocked", tid>>]
    IN  IF tid \in DOMAIN app.transaction_dict
        THEN LET object_list == app.transaction_dict[tid]
             IN  [answered EXCEPT
                    !.load_lock_dict =
                        [oid \in DOMAIN @ \cup Range(object_list) |->
                            IF oid \in Range(object_list) THEN tid
                            ELSE @[oid]],
                    !.dm.stored = @ \cup {tid}]
        ELSE answered                             \* except KeyError: pass

\* the loop of handleUnlockInformation over the objects: a KeyError of
\* either del ends the handler where it is
RECURSIVE UnlockObjects(_, _, _)
UnlockObjects(app, tid, object_list) ==
    IF object_list = <<>>
    THEN executeQueuedEvents(
             [app EXCEPT !.dm.finished = @ \cup {tid},
                         !.transaction_dict = Drop(@, tid)])
    ELSE LET oid == Head(object_list)
         IN  IF oid \notin DOMAIN app.load_lock_dict THEN app
             ELSE LET app1 == [app EXCEPT !.load_lock_dict = Drop(@, oid)]
                  IN  IF oid \notin DOMAIN app.store_lock_dict THEN app1
                      ELSE UnlockObjects(
                               [app1 EXCEPT !.store_lock_dict = Drop(@, oid)],
                               tid, Tail(object_list))

\* the load locks are removed and the store locks kept
UnlockLoadOnlyMutant(app, tid) ==
    IF tid \in DOMAIN app.transaction_dict
    THEN executeQueuedEvents(
             [app EXCEPT
                !.load_lock_dict =
                    [oid \in DOMAIN @ \ Range(app.transaction_dict[tid])
                        |-> @[oid]],
                !.dm.finished = @ \cup {tid},
                !.transaction_dict = Drop(@, tid)])
    ELSE app

\* MasterOperationHandler.handleUnlockInformation
handleUnlockInformation(app, tid) ==
    IF tid \in DOMAIN app.transaction_dict
    THEN UnlockObjects(app, tid, app.transaction_dict[tid])
    ELSE app                                      \* except KeyError: pass

\* a client stores an object of a transaction it has not asked to finish;
\* it stores an object once
AskStoreObject ==
    /\ \E tid \in StorageTIDs : phase[tid] = "open"
    /\ \E tid \in StorageTIDs, oid \in StorageOIDs :
           /\ phase[tid] = "open"
           /\ oid \notin Range(Get(transaction_dict, tid, <<>>))
           /\ [tid |-> tid, oid |-> oid] \notin Range(event_queue)
           /\ SApply(handleAskStoreObject(SState, tid, oid))
           /\ UNCHANGED phase
           /\ OnlyLocks

\* the master sends LockInformation(tid) when the client asked to finish,
\* which it does when its stores were answered
LockInformation ==
    /\ \E tid \in StorageTIDs : phase[tid] = "open"
    /\ \E tid \in StorageTIDs :
           /\ phase[tid] = "open"
           /\ \A e \in Range(event_queue) : e.tid # tid
           /\ SApply(handleLockInformation(SState, tid))
           /\ phase' = [phase EXCEPT ![tid] = "locked"]
           /\ OnlyLocks

\* the master sends UnlockInformation(tid) when the storages have locked
UnlockInformation ==
    /\ \E tid \in StorageTIDs : phase[tid] = "locked"
    /\ \E tid \in StorageTIDs :
           /\ phase[tid] = "locked"
           /\ SApply(handleUnlockInformation(SState, tid))
           /\ phase' = [phase EXCEPT ![tid] = "unlocked"]
           /\ OnlyLocks

InitLocks ==
    /\ transaction_dict = <<>>
    /\ load_lock_dict = <<>>
    /\ store_lock_dict = <<>>
    /\ event_queue = <<>>
    /\ sdm = [stored |-> {}, finished |-> {}]
    /\ sanswer = <<>>
    /\ executions = 0
    /\ phase = [tid \in StorageTIDs |-> "open"]

NextLocks ==
    \/ AskStoreObject
    \/ LockInformation
    \/ UnlockInformation

(***************************************************************************)
(* Part XI: the event manager.  poll() is called by one thread; packets    *)
(* arrive on the sockets, connections are registered and unregistered.     *)
(***************************************************************************)
\* packets that arrive on a connection in a run
MaxPackets == 2

EMConns == {1, 2, 3}

\* the event manager and the connections as poll finds them
EMState ==
    [connection_dict |-> em_connection_dict,
     pending_processing |-> pending_processing, received |-> received,
     messages |-> messages, asserted |-> asserted]

\* EpollEventManager.unregister
EventManagerUnregister(em, conn) ==
    LET new_pending_processing ==
            SelectSeq(em.pending_processing, LAMBDA x : x # conn)
    IN  IF ~(Len(new_pending_processing) > Len(em.pending_processing) - 2)
        THEN [em EXCEPT !.asserted = TRUE]
        ELSE [em EXCEPT !.pending_processing = new_pending_processing,
                        !.connection_dict = @ \ {conn}]

\* EpollEventManager._addPendingConnection
_addPendingConnection(em, conn) ==
    [em EXCEPT !.pending_processing = Append(@, conn)]

\* the first loop of EpollEventManager._poll over rlist: each connection
\* reads its socket and is queued when it has messages
RECURSIVE ReadAll(_, _)
ReadAll(em, rlist) ==
    IF rlist = <<>> THEN em
    ELSE LET conn == Head(rlist)
             em1 == [em EXCEPT !.messages[conn] = @ + em.received[conn],
                               !.received[conn] = 0]
         IN  IF conn \notin em.connection_dict
             THEN ReadAll(em, Tail(rlist))          \* except KeyError: pass
             ELSE ReadAll(IF em1.messages[conn] > 0
                          THEN _addPendingConnection(em1, conn)
                          ELSE em1,
                          Tail(rlist))

\* Connection.process() and what poll does after it: one message is
\* handled, the handler may close the connection, and the connection is
\* queued again when it has messages left
Process(em, to_process, closes) ==
    LET em1 == [em EXCEPT !.messages[to_process] =
                              IF @ > 0 THEN @ - 1 ELSE 0]
        em2 == IF closes /\ to_process \in em.connection_dict
               THEN EventManagerUnregister(em1, to_process)
               ELSE em1
    IN  IF em2.messages[to_process] > 0
        THEN _addPendingConnection(em2, to_process)
        ELSE em2

\* a poll that reads the network whatever the queue holds
PollAlwaysReadsMutant(em, rlist, closes) ==
    LET em1 == ReadAll(em, rlist)
    IN  IF em1.pending_processing = <<>>
        THEN [em |-> em1, read |-> TRUE, processed |-> 0]
        ELSE [em |-> Process([em1 EXCEPT !.pending_processing = Tail(@)],
                             Head(em1.pending_processing), closes),
              read |-> TRUE,
              processed |-> Head(em1.pending_processing)]

\* EpollEventManager.poll; rlist is what epoll gives, closes whether the
\* handler of the message closes the connection
poll(em, rlist, closes) ==
    LET read == em.pending_processing = <<>>
        em1 == IF read THEN ReadAll(em, rlist) ELSE em
    IN  IF em1.pending_processing = <<>>
        THEN [em |-> em1, read |-> read, processed |-> 0]
        ELSE [em |-> Process([em1 EXCEPT !.pending_processing = Tail(@)],
                             Head(em1.pending_processing), closes),
              read |-> read,
              processed |-> Head(em1.pending_processing)]

EMApply(em) ==
    /\ em_connection_dict' = em.connection_dict
    /\ pending_processing' = em.pending_processing
    /\ received' = em.received
    /\ messages' = em.messages
    /\ asserted' = em.asserted

\* the connections epoll reports as readable, in any order
ReadyLists ==
    LET readable == {conn \in em_connection_dict : received[conn] > 0}
    IN  {rlist \in [1..Cardinality(readable) -> readable] :
            Range(rlist) = readable}

\* one call of poll()
Poll ==
    /\ ~asserted
    /\ \E rlist \in ReadyLists, closes \in BOOLEAN :
           LET r == poll(EMState, rlist, closes)
           IN  /\ EMApply(r.em)
               /\ polled' = [read |-> r.read, processed |-> r.processed]
               /\ OnlyPoll

\* a packet arrives on the socket of a connection
PacketArrives ==
    /\ ~asserted
    /\ \E conn \in em_connection_dict :
           /\ received[conn] + messages[conn] < MaxPackets
           /\ received' = [received EXCEPT ![conn] = @ + 1]
           /\ UNCHANGED <<em_connection_dict, pending_processing, messages,
                          asserted, polled>>
           /\ OnlyPoll

\* a connection is closed outside process(): unregister
ConnectionUnregisters ==
    /\ ~asserted
    /\ \E conn \in em_connection_dict :
           /\ EMApply(EventManagerUnregister(EMState, conn))
           /\ UNCHANGED polled
           /\ OnlyPoll

InitPoll ==
    /\ em_connection_dict = EMConns
    /\ pending_processing = <<>>
    /\ received = [conn \in EMConns |-> 0]
    /\ messages = [conn \in EMConns |-> 0]
    /\ asserted = FALSE
    /\ polled = [read |-> FALSE, processed |-> 0]

NextPoll ==
    \/ Poll
    \/ PacketArrives
    \/ ConnectionUnregisters

(***************************************************************************)
(* Part XII: two threads call _getMasterConnection, directly or from       *)
(* new_oid through _askPrimary, while the client has no connection to the  *)
(* primary master.  Each line of _getMasterConnection is a step.           *)
(***************************************************************************)
\* calls of a thread in a run
MaxCalls == 2

\* OIDs the master gives for one AskNewOIDs
MaxOIDs == 2

Callers == {"t1", "t2"}

NotCalling == [pc |-> "idle", result |-> 0, from |-> "", calls |-> 0,
               returned |-> <<>>]

\* a thread calls _getMasterConnection (as _askPrimary does)
CallGetMasterConnection ==
    /\ \E t \in Callers :
           /\ caller[t].pc = "idle"
           /\ caller[t].calls < MaxCalls
           /\ caller' = [caller EXCEPT ![t].pc = "get", ![t].from = "direct",
                                       ![t].calls = @ + 1]
           /\ UNCHANGED <<master_conn, new_oid_list, connecting_lock,
                          oid_lock, connections, resetters>>
           /\ OnlyConnect

\* new_oid: the lock is taken; with an empty list the master is asked,
\* which starts with _getMasterConnection, else an OID is popped
NewOid ==
    /\ \E t \in Callers :
           /\ caller[t].pc = "idle"
           /\ caller[t].calls < MaxCalls
           /\ oid_lock = ""
           /\ IF new_oid_list = 0
              THEN /\ oid_lock' = t
                   /\ caller' = [caller EXCEPT ![t].pc = "get",
                                               ![t].from = "new_oid",
                                               ![t].calls = @ + 1]
                   /\ UNCHANGED new_oid_list
              ELSE /\ new_oid_list' = new_oid_list - 1
                   /\ caller' = [caller EXCEPT ![t].calls = @ + 1]
                   /\ UNCHANGED oid_lock
           /\ UNCHANGED <<master_conn, connecting_lock, connections,
                          resetters>>
           /\ OnlyConnect

\* _getMasterConnection: result = self.master_conn; if result is None
ReadMasterConn ==
    /\ \E t \in Callers :
           /\ caller[t].pc = "get"
           /\ caller' = [caller EXCEPT
                  ![t].result = master_conn,
                  ![t].pc = IF master_conn = 0 THEN "acquire" ELSE "return"]
           /\ UNCHANGED <<master_conn, new_oid_list, connecting_lock,
                          oid_lock, connections, resetters>>
           /\ OnlyConnect

\* _getMasterConnection: self._connecting_to_master_node_acquire()
AcquireConnecting ==
    /\ connecting_lock = ""
    /\ \E t \in Callers :
           /\ caller[t].pc = "acquire"
           /\ connecting_lock' = t
           /\ caller' = [caller EXCEPT ![t].pc = "reset"]
           /\ UNCHANGED <<master_conn, new_oid_list, oid_lock, connections,
                          resetters>>
           /\ OnlyConnect

\* _getMasterConnection: self.new_oid_list = []
ResetOids ==
    /\ \E t \in Callers :
           /\ caller[t].pc = "reset"
           /\ new_oid_list' = 0
           /\ resetters' = resetters \cup {t}
           /\ caller' = [caller EXCEPT ![t].pc = "connect"]
           /\ UNCHANGED <<master_conn, connecting_lock, oid_lock,
                          connections>>
           /\ OnlyConnect

\* _getMasterConnection: result = self._connectToPrimaryNode();
\* self.master_conn = result; the lock is released
ConnectToPrimary ==
    /\ \E t \in Callers :
           /\ caller[t].pc = "connect"
           /\ LET result == Len(connections) + 1
              IN  /\ connections' = Append(connections, t)
                  /\ master_conn' = result
                  /\ caller' = [caller EXCEPT ![t].result = result,
                                              ![t].pc = "return"]
           /\ connecting_lock' = ""
           /\ UNCHANGED <<new_oid_list, oid_lock, resetters>>
           /\ OnlyConnect

\* _getMasterConnection: return result
GetMasterConnectionReturns ==
    /\ \E t \in Callers :
           /\ caller[t].pc = "return"
           /\ caller' = [caller EXCEPT
                  ![t].returned = Append(@, caller[t].result),
                  ![t].pc = IF caller[t].from = "new_oid" THEN "asked"
                            ELSE "idle"]
           /\ UNCHANGED <<master_conn, new_oid_list, connecting_lock,
                          oid_lock, connections, resetters>>
           /\ OnlyConnect

\* new_oid: the answer to AskNewOIDs fills the list
AnswerNewOIDs ==
    /\ \E t \in Callers :
           /\ caller[t].pc = "asked"
           /\ new_oid_list' = MaxOIDs
           /\ caller' = [caller EXCEPT ![t].pc = "pop"]
           /\ UNCHANGED <<master_conn, connecting_lock, oid_lock,
                          connections, resetters>>
           /\ OnlyConnect

\* new_oid: 'new_oid failed' with an empty list, else an OID is popped;
\* the lock is released
PopOid ==
    /\ \E t \in Callers :
           /\ caller[t].pc = "pop"
           /\ new_oid_list' = IF new_oid_list <= 0 THEN new_oid_list
                              ELSE new_oid_list - 1
           /\ oid_lock' = ""
           /\ caller' = [caller EXCEPT ![t].pc = "idle"]
           /\ UNCHANGED <<master_conn, connecting_lock, connections,
                          resetters>>
           /\ OnlyConnect

InitConnect ==
    /\ master_conn = 0
    /\ new_oid_list = 0
    /\ connecting_lock = ""
    /\ oid_lock = ""
    /\ caller = [t \in Callers |-> NotCalling]
    /\ connections = <<>>
    /\ resetters = {}

NextConnect ==
    \/ CallGetMasterConnection
    \/ NewOid
    \/ ReadMasterConn
    \/ AcquireConnecting
    \/ ResetOids
    \/ ConnectToPrimary
    \/ GetMasterConnectionReturns
    \/ AnswerNewOIDs
    \/ PopOid

\* the state of the parts added to the client and to the storage
InitExtra ==
    /\ InitTries
    /\ InitLock
    /\ InitWait
    /\ InitTimers
    /\ InitLocks
    /\ InitPoll
    /\ InitConnect

(***************************************************************************)
(* Specifications.                                                         *)
(***************************************************************************)
vars == <<mvars, cvars, lvars, tvars, wvars, xvars>>

\* the master in service, the client idle
StartMaster ==
    /\ InitMaster /\ InitClient /\ InitLoad /\ InitTable /\ InitPool
    /\ InitExtra

SpecMaster == StartMaster /\ [][NextMaster]_vars

\* the master in service with clients that ask once to finish and
\* storages that answer the lock requests they are sent, and only those
SpecFinish ==
    /\ StartMaster
    /\ [][NextFinish]_vars
    /\ \A conn \in Storages, tid \in 1..MaxTID :
           WF_vars(LockReply(conn, tid))

\* the master in service with several transactions per connection
SpecSessions == StartMaster /\ [][NextSessions]_vars

\* the master losing storages while a client connects to it
SpecCluster == StartMaster /\ [][NextCluster]_vars

\* the client and its storages, the master idle
StartClient ==
    /\ InitClient
    /\ MasterStart(<<Row(CellOrder), Row(CellOrder)>>)
    /\ InitLoad
    /\ InitTable
    /\ InitPool
    /\ InitExtra

SpecClient == StartClient /\ [][NextClient]_vars

\* the calls of the application, with any handle
SpecApi == StartClient /\ [][NextApi]_vars

\* two threads, the connection pool and the dispatcher
SpecPool == StartClient /\ [][NextPool]_vars

\* two threads, one storage and the dispatcher; a thread that waits takes
\* what is put in its queue
SpecPoolShared ==
    /\ StartClient
    /\ [][NextPoolShared]_vars
    /\ \A t \in Threads : WF_vars(WaitMessageBy(t))

\* loads over cells that answer, answer wrongly or do not answer
SpecTries == StartClient /\ [][NextTries]_vars

\* two threads and the transaction lock of NEOStorage
SpecLock == StartClient /\ [][NextLock]_vars

\* two threads in waitResponses, the poll thread and the timeout hook
SpecWait == StartClient /\ [][NextWait]_vars

\* requests with timeouts and the poll thread, whose clock moves on
SpecTimers ==
    /\ StartClient
    /\ [][NextTimers]_vars
    /\ WF_vars(PollLater)

\* a storage node with two transactions
SpecLocks == StartClient /\ [][NextLocks]_vars

\* the event manager with three connections
SpecPoll == StartClient /\ [][NextPoll]_vars

\* two threads and the connection to the primary master
SpecConnect == StartClient /\ [][NextConnect]_vars

\* one thread and the connection pool, with three storages
SpecPoolAlone == StartClient /\ [][NextPoolAlone]_vars

\* the client's loads, its tpc_finish and the commits of other clients
SpecLoad == StartClient /\ [][NextLoad]_vars

\* a partition table under any sequence of calls
SpecTable == StartClient /\ [][NextTable]_vars

\* the partition table and the database of a storage
SpecStorage == StartClient /\ [][NextStorage]_vars

(***************************************************************************)
(* Part I, properties.                                                     *)
(***************************************************************************)
PacketsOut(type) == {out[i] : i \in {j \in DOMAIN out : out[j].type = type}}

FanOutTypes ==
    {"AnswerTransactionFinished", "InvalidateObjects",
     "NotifyUnlockInformation"}

\* C1: AnswerTransactionFinished(tid) is queued only by a handler that found
\* every storage of the record's expected set among the storages that
\* reported the lock of tid; a strict subset of the replies makes no finish.
C1_FinishOnlyWhenAllReported ==
    \A p \in PacketsOut("AnswerTransactionFinished") :
        /\ p.tid \in DOMAIN fin
        /\ fin[p.tid].prepared
        /\ fin[p.tid].uuid_set \subseteq fin[p.tid].reported

\* a finish was answered for a transaction that expected two storages
C1_Witness ==
    \E p \in PacketsOut("AnswerTransactionFinished") :
        /\ p.tid \in DOMAIN fin
        /\ Cardinality(fin[p.tid].uuid_set) = 2

\* the packets of the fan-out of record t of tid, as the claim states them
ExpectedFanOut(t, tid) ==
    {Packet(t.conn, "AnswerTransactionFinished", t.msg_id, tid, <<>>)}
    \cup {Packet(c, "InvalidateObjects", 0, tid, t.oid_list) :
             c \in (Clients \cap Range(conns)) \ {t.conn}}
    \cup {Packet(s, "NotifyUnlockInformation", 0, tid, <<>>) :
             s \in t.uuid_set}

FanOutOf(tid) ==
    {out[i] : i \in {j \in DOMAIN out :
                        out[j].tid = tid /\ out[j].type \in FanOutTypes}}

\* the handler that completed the locks of tid queued exactly the fan-out
\* and removed the record
FanOutComplete ==
    \A tid \in DOMAIN fin :
        /\ FanOutOf(tid) = ExpectedFanOut(fin[tid], tid)
        /\ fin[tid].msg_id \in MsgIds
        /\ Cardinality({i \in DOMAIN out :
                out[i].tid = tid /\ out[i].type \in FanOutTypes})
             = Cardinality(ExpectedFanOut(fin[tid], tid))
        /\ tid \notin DOMAIN tm

\* no handler answers the finish of a TID that was already answered
FinishedOnce ==
    \A i \in DOMAIN out' :
        out'[i].type = "AnswerTransactionFinished" =>
            out'[i].tid \notin finished

\* C2: the handler of the last expected lock reply of tid answers
\* AnswerTransactionFinished to the initiator with the id of its finish
\* request, InvalidateObjects to every other identified client,
\* NotifyUnlockInformation to exactly the expected storages, and removes the
\* record; AnswerTransactionFinished(tid) is queued at most once per TID.
C2_FanOutOncePerTID == []FanOutComplete /\ [][FinishedOnce]_vars

\* a fan-out with an invalidation and two unlock notifications was made
\* while a lock reply for an already finished TID had been handled before
C2_Witness ==
    \E tid \in DOMAIN fin :
        /\ Cardinality(FanOutOf(tid)) = 4
        /\ finished # {tid}

C11_Counterexample ==
    \A i, j \in DOMAIN out :
        (/\ out[i].type = "AnswerTransactionFinished"
         /\ out[j].type = "InvalidateObjects"
         /\ out[i].tid = out[j].tid)
        => i < j

\* C12: LockInformation(tid) is queued only by the handler of an
\* AskFinishTransaction whose tid is not greater than the last TID and has
\* a record, and only for storages of the expected set of that record.
C12_Counterexample ==
    \A p \in PacketsOut("LockInformation") :
        /\ p.tid <= ltid
        /\ p.tid \in DOMAIN tm
        /\ tm[p.tid].prepared
        /\ p.to \in tm[p.tid].uuid_set

\* a handler of AbortTransaction(tid) leaves no record for tid, queues
\* nothing, and changes nothing else of the table; without a record for
\* tid the table is left as it was
AbortRemoves ==
    \A conn \in Clients \cap Range(conns), tid \in TIDInputs :
        LET m == handleAbortTransaction(MState, conn, 0, tid)
        IN  /\ tid \notin DOMAIN m.tm
            /\ m.tm = DelTxn(tm, tid)
            /\ tid \notin DOMAIN tm => m.tm = tm
            /\ m.out = <<>>

\* an allocated TID without a record gets no record again, and no handler
\* queues a packet of the fan-out for it
NoRecordNoFanOut ==
    \A tid \in 1..ltid :
        tid \notin DOMAIN tm =>
            /\ tid \notin DOMAIN tm'
            /\ \A i \in DOMAIN out' :
                   out'[i].tid = tid => out'[i].type \notin FanOutTypes

\* C13: after the master handled AbortTransaction(tid) no record for tid
\* exists, and no AnswerTransactionFinished, InvalidateObjects or
\* NotifyUnlockInformation for tid is queued afterwards, whatever lock reply
\* arrives later; an abort for a tid without a record leaves the table
\* unchanged.
C13_AbortIsFinal == []AbortRemoves /\ [][NoRecordNoFanOut]_vars

\* TID 1 was aborted: it was allocated, has no record, was never finished,
\* and no connection was lost, while a later transaction is being locked
C13_Witness ==
    /\ ltid = 2
    /\ 1 \notin DOMAIN tm
    /\ 1 \notin finished
    /\ Range(conns) = Nodes
    /\ 2 \in DOMAIN tm
    /\ tm[2].reported # {}


\* the steps in which the connection of client c goes away
ClientLost(c) == c \in Range(conns) /\ c \notin Range(conns')

\* C14: when the connection of a client is closed, times out or breaks,
\* every pending transaction begun on it is removed, the client node is
\* removed from the node manager, the partition table and its ID are left
\* as they were, and the transactions of other connections are untouched.
C14_ClientLostStep ==
    \A c \in Clients :
        ClientLost(c) =>
            /\ \A tid \in DOMAIN tm' : tm'[tid].conn # c
            /\ \A tid \in DOMAIN tm :
                   tm[tid].conn # c =>
                       tid \in DOMAIN tm' /\ tm'[tid] = tm[tid]
            /\ DOMAIN tm' \subseteq DOMAIN tm
            /\ c \notin DOMAIN nm'
            /\ lptid' = lptid
            /\ mpt' = mpt

C14_ClientLost == [][C14_ClientLostStep]_vars

\* client c1 began TIDs 1 and 2 on its connection and lost it: the only
\* connection lost is the one of c1 and no record is left
C14_Witness ==
    /\ ltid = 2
    /\ tm = <<>>
    /\ Range(conns) = Nodes \ {"c1"}
    /\ "c1" \notin DOMAIN nm
    /\ nm["s1"] = RUNNING_STATE /\ nm["s2"] = RUNNING_STATE

(***************************************************************************)
(* Part II, properties.                                                    *)
(***************************************************************************)
\* the last call of the application is tpc_vote and it ended in step
VoteEnded(step) ==
    /\ cres.call = "tpc_vote"
    /\ cres.step = step
    /\ cphase # "vote"

\* the stored OIDs no storage confirmed
Unconfirmed ==
    {oid \in DOMAIN lv.object_stored_counter_dict :
        DOMAIN lv.object_stored_counter_dict[oid] = {}}

\* C4: when the resolution loop of tpc_vote stops at an OID whose latest
\* pending conflict serial is later than the TID, tpc_vote fails with
\* ConflictError(oid, serials = (tid, base serial), data), the object is
\* not stored again and the resolver was not invoked for that serial.
C4_Counterexample ==
    (/\ VoteEnded("resolve")
     /\ cres.raised # "none"
     /\ cres.oid \in DOMAIN lv.conflict_serial_dict
     /\ Max(lv.conflict_serial_dict[cres.oid]) > lv.tid)
    => /\ cres.raised = "ConflictError"
       /\ cres.serials = <<lv.tid, lv.object_serial_dict[cres.oid]>>
       /\ \A req \in pend : req.oid # cres.oid
       /\ <<cres.oid, Max(lv.conflict_serial_dict[cres.oid])>> \notin rlog

\* C5: a tpc_vote whose conflicts were all resolved, whose store requests
\* were all answered and confirmed and whose vote request a storage
\* answered returns its result: ResolvedSerial for every OID that had a
\* conflict and the TID for every other stored OID.
C5_Counterexample ==
    (/\ VoteEnded("final")
     /\ resolved_oid_set # {}
     /\ Unconfirmed = {}
     /\ cres.acked # {})
    => /\ cres.raised = "none"
       /\ Range(cres.value) =
             {<<oid, IF oid \in resolved_oid_set
                     THEN ResolvedSerial ELSE lv.tid>> :
                 oid \in DOMAIN lv.object_stored_counter_dict}

\* C6: a tpc_vote that got through the resolution loop while some stored
\* OID has no confirming storage does not succeed: it fails with
\* NEOStorageError('tpc_store failed').
C6_StoreFailed ==
    (VoteEnded("final") /\ Unconfirmed # {})
    => /\ cres.raised = "NEOStorageError"
       /\ cres.msg = "tpc_store failed"

\* tpc_vote failed for an unconfirmed OID while another one is confirmed
C6_Witness ==
    /\ VoteEnded("final")
    /\ cres.msg = "tpc_store failed"
    /\ Unconfirmed # {}
    /\ Unconfirmed # DOMAIN lv.object_stored_counter_dict

\* the storages that confirmed a store of the transaction
Confirmers ==
    {s \in Storages :
        \E oid \in DOMAIN lv.object_stored_counter_dict :
            \E serial \in DOMAIN lv.object_stored_counter_dict[oid] :
                s \in lv.object_stored_counter_dict[oid][serial]}

\* C7: with two replicas, when one storage was lost after it confirmed the
\* object store, so that tpc_vote skips it, and the other one answers
\* AskStoreTransaction, tpc_vote succeeds and the lost storage stays in
\* involved_nodes.
C7_Counterexample ==
    (/\ VoteEnded("final")
     /\ Unconfirmed = {}
     /\ cres.acked # {}
     /\ cres.skipped \cap Confirmers # {})
    => /\ cres.raised = "none"
       /\ cres.voted_counter >= 1
       /\ cres.skipped \cap Confirmers \subseteq lv.involved_nodes

C9_Counterexample ==
    (cres.call = "tpc_finish" /\ cres.raised = "none")
    => /\ cres.value = <<ctid>>
       /\ lv = EmptyContext
       /\ \A oid \in DOMAIN cres.stored :
             IF cres.stored[oid] # ""
             THEN /\ oid \in DOMAIN mq_cache
                  /\ mq_cache[oid] = <<ctid, cres.stored[oid]>>
             ELSE oid \notin DOMAIN mq_cache

(***************************************************************************)
(* Part III, properties.                                                   *)
(***************************************************************************)
\* C10: a load(oid) that begins after the client processed
\* InvalidateObjects(tid, {oid}) returns a revision whose serial is at
\* least tid, whatever load or tpc_finish the invalidation interleaved
\* with.
C10_Counterexample ==
    (lres.oid \in Oids /\ lres.raised = "none") => lres.serial >= lres.since

\* load sends a request only for an object the cache does not hold, and a
\* load that returns without one returns what the cache holds and leaves it
C30_LoadStep ==
    /\ (loading.pc = "idle" /\ loading'.pc = "asked")
           => loading'.oid \notin DOMAIN mq_cache
    /\ (loading.pc = "idle" /\ lres' # lres)
           => /\ lres'.oid \in DOMAIN mq_cache
              /\ lres'.serial = mq_cache[lres'.oid][1]
              /\ lres'.raised = "none"
              /\ loading' = loading
              /\ mq_cache' = mq_cache

\* a load that got an object from a storage caches its serial and data, a
\* load that failed leaves the cache
C30_MissStep ==
    (loading.pc = "answered" /\ loading'.pc = "idle") =>
        IF loading.asked_object[1] # 0
        THEN /\ loading.oid \in DOMAIN mq_cache'
             /\ mq_cache'[loading.oid] =
                    <<loading.asked_object[1], loading.asked_object[2]>>
             /\ lres'.serial = loading.asked_object[1]
             /\ lres'.raised = "none"
        ELSE /\ mq_cache' = mq_cache
             /\ lres'.raised = "NEOStorageNotFoundError"

\* loadSerial and loadBefore always ask a storage, return the revision
\* asked for as the storages have it, and leave the cache
C30_RevisionStep ==
    /\ sloading' # sloading => mq_cache' = mq_cache
    /\ sres' # sres =>
           \/ sloading.pc = "idle" /\ sloading'.pc = "asked"
           \/ /\ sloading.pc = "answered"
              /\ sres'.raised = "none" /\ sres'.value # "None"
                    => /\ sres'.serial \in history[sres'.oid]
                       /\ IF sres'.call = "loadSerial"
                          THEN sres'.serial = sres'.asked
                          ELSE sres'.serial < sres'.asked

\* C30: load(oid) answers from the cache without a request when the
\* object is cached and caches the (serial, data) a storage gave it on a
\* miss; loadSerial and loadBefore neither read nor write the cache; a
\* load that fails caches nothing.
C30_LoadCache ==
    [][C30_LoadStep /\ C30_MissStep /\ C30_RevisionStep]_vars

\* loadSerial returned another revision than the one the cache holds
C30_Witness ==
    /\ sres.call = "loadSerial"
    /\ sres.raised = "none"
    /\ sres.oid \in DOMAIN mq_cache
    /\ mq_cache[sres.oid][1] # sres.serial

(***************************************************************************)
(* Part IV, properties.                                                    *)
(***************************************************************************)
\* every partition of the table has a cell that is up-to-date or feeding
\* and whose node is running
EveryPartitionServed(t, nodes) ==
    \A offset \in 0..(t.np - 1) :
        \E i \in DOMAIN t.partition_list[offset] :
            /\ t.partition_list[offset][i].state
                   \in {UP_TO_DATE_STATE, FEEDING_STATE}
            /\ nodes[t.partition_list[offset][i].uuid] = RUNNING_STATE

\* the master's table as a table of Part IV
MasterTable == [np |-> NumPartitions, partition_list |-> mpt]

\* the master is in service exactly while every partition of its table has
\* an up-to-date or feeding cell on a running node, and a begin request is
\* answered only then
MasterGate ==
    /\ mstatus = "service" <=> EveryPartitionServed(MasterTable, nm)
    /\ mstatus # "service" => mstatus = "OperationFailure"
    /\ PacketsOut("AnswerNewTID") # {} =>
           /\ mstatus = "service"
           /\ EveryPartitionServed(MasterTable, nm)

\* the client leaves the loop of _connectToPrimaryNode only with a table
\* in which every partition is served
ClientGate ==
    (~ready /\ ready') => EveryPartitionServed(ptab', pnm')

\* C15: the cluster accepts AskBeginTransaction iff the partition table is
\* operational: when the loss of a storage leaves a partition without a
\* running up-to-date or feeding cell the master leaves the service state
\* (operation failure) and answers no further begin, and when every
\* partition keeps such a cell it stays in service; a client does not
\* complete its connection to the primary until the table it received is
\* operational.
C15_OperationalGate == []MasterGate /\ [][ClientGate]_vars

\* the master lost storage s1 and stayed in service, and a client that took
\* the nodes and the table afterwards completed its connection
C15_Witness ==
    /\ mstatus = "service"
    /\ nm["s1"] # RUNNING_STATE
    /\ pnm["s1"] # RUNNING_STATE
    /\ ready

\* C16: after any sequence of setCell, removeCell, load, update and clear,
\* operational() is true iff every partition has at least one cell that is
\* up-to-date or feeding and whose node is running.
C16_Counterexample ==
    operational(ptab, pnm) <=> EveryPartitionServed(ptab, pnm)

\* the cells of a row that are of the node, and the others, in stored order
CellsOf(row, node) == SeqFilter(row, {c \in Range(row) : c.uuid = node})

CellsNotOf(row, node) == SeqFilter(row, {c \in Range(row) : c.uuid # node})

\* every row holds at most one cell per node and no discarded cell
OneCellPerNode(t) ==
    \A offset \in DOMAIN t.partition_list :
        /\ \A node \in Storages :
               Len(CellsOf(t.partition_list[offset], node)) <= 1
        /\ \A i \in DOMAIN t.partition_list[offset] :
               t.partition_list[offset][i].state # DISCARDED_STATE

\* setCell leaves the cells of the other nodes of the row, in their order,
\* and the other rows as they were
SetCellKeepsOthers(t, t2, offset, node) ==
    /\ CellsNotOf(t2.partition_list[offset], node)
           = CellsNotOf(t.partition_list[offset], node)
    /\ \A o \in DOMAIN t.partition_list \ {offset} :
           t2.partition_list[o] = t.partition_list[o]

\* what setCell(offset, node, state) makes of the cell of the node
SetCellReplaces(t, t2, offset, node, state) ==
    CellsOf(t2.partition_list[offset], node)
        = IF state = DISCARDED_STATE THEN <<>> ELSE <<Cell(node, state)>>

\* C17 as stated: each row holds at most one cell per node and no discarded
\* cell; setCell(p, node, state) replaces the prior cell of the node in p,
\* leaving the other cells of p and the other partitions unchanged, and
\* setCell with state discarded removes the node's cell from p.
C17_Counterexample ==
    /\ OneCellPerNode(ptab)
    /\ \A offset \in Offsets, node \in Storages, state \in CellStates :
           LET t2 == setCell(ptab, pnm, offset, node, state)
           IN  /\ SetCellKeepsOthers(ptab, t2, offset, node)
               /\ CellsOf(ptab.partition_list[offset], node) # <<>>
                      => SetCellReplaces(ptab, t2, offset, node, state)

\* C17 amended: the same, for a node that is neither broken nor down;
\* setCell with a state other than discarded for a broken or down node is
\* rejected and leaves the table as it was.
C17_SetCell ==
    /\ OneCellPerNode(ptab)
    /\ \A offset \in Offsets, node \in Storages, state \in CellStates :
           LET t2 == setCell(ptab, pnm, offset, node, state)
           IN  /\ SetCellKeepsOthers(ptab, t2, offset, node)
               /\ IF /\ state # DISCARDED_STATE
                     /\ pnm[node] \in {BROKEN_STATE, DOWN_STATE}
                  THEN t2 = ptab
                  ELSE SetCellReplaces(ptab, t2, offset, node, state)

\* a row holds the cells of two nodes, one of them broken, after a cell of
\* the row was replaced: its nodes are not in the order they were first set
C17_Witness ==
    /\ Len(ptab.partition_list[0]) = 2
    /\ ptab.partition_list[0][1].uuid = "s2"
    /\ ptab.partition_list[0][2] = Cell("s1", OUT_OF_DATE_STATE)
    /\ pnm["s1"] = BROKEN_STATE
    /\ ptab.partition_list[1] # <<>>

\* the partitions a row list supplies
OffsetsOf(row_list) == {row_list[i][1] : i \in DOMAIN row_list}

\* a row that puts a cell in its partition: it lists a cell that is not
\* discarded, of a node that is neither broken nor down
Supplies(row, nodes) ==
    \E i \in DOMAIN row :
        /\ row[i][2] # DISCARDED_STATE
        /\ nodes[row[i][1]] \notin {BROKEN_STATE, DOWN_STATE}

\* C18: load(ptid, rows) discards the previous content only when ptid is
\* not the table's current ID; two successive loads with the same ptid and
\* disjoint sets of rows leave the rows of both calls in the table; getID()
\* is ptid after each call; filled() is true once rows for all the
\* partitions were supplied.
C18_Counterexample ==
    \A ptid \in PTIDInputs, row_list \in RowLists :
        LET r == load(ptab, pnm, ptid, row_list)
        IN  r.raised = "none" =>
              /\ getID(r.t) = ptid
              /\ ptid = getID(ptab) =>
                    \A offset \in Offsets \ OffsetsOf(row_list) :
                        r.t.partition_list[offset]
                            = ptab.partition_list[offset]
              /\ \A row_list2 \in RowLists :
                    OffsetsOf(row_list2) \cap OffsetsOf(row_list) = {} =>
                        LET r2 == load(r.t, pnm, ptid, row_list2)
                        IN  /\ r2.raised = "none"
                            /\ getID(r2.t) = ptid
                            /\ \A offset \in OffsetsOf(row_list) :
                                   r2.t.partition_list[offset]
                                       = r.t.partition_list[offset]
                            /\ (/\ ptid # getID(ptab)
                                /\ OffsetsOf(row_list) \cup OffsetsOf(row_list2)
                                       = Offsets
                                /\ \A i \in DOMAIN row_list :
                                       Supplies(row_list[i][2], pnm)
                                /\ \A i \in DOMAIN row_list2 :
                                       Supplies(row_list2[i][2], pnm))
                               => filled(r2.t)

\* the positions of the changes of a cell list that take effect on the cell
\* of the node in the partition: a discarded cell, or a cell of a node that
\* is neither broken nor down
Effective(cell_list, nodes, offset, node) ==
    {i \in DOMAIN cell_list :
        /\ cell_list[i][1] = offset
        /\ cell_list[i][2] = node
        /\ \/ cell_list[i][3] = DISCARDED_STATE
           \/ nodes[node] \notin {BROKEN_STATE, DOWN_STATE}}

\* table t2 is table t with every change of the cell list applied: the cell
\* of a node in a partition is what the last change for it says, and the
\* cells no change is for are as they were
ChangesApplied(t, t2, nodes, cell_list) ==
    \A offset \in Offsets, node \in Storages :
        LET eff == Effective(cell_list, nodes, offset, node)
        IN  IF eff = {}
            THEN CellsOf(t2.partition_list[offset], node)
                     = CellsOf(t.partition_list[offset], node)
            ELSE LET last == cell_list[Max(eff)]
                 IN  CellsOf(t2.partition_list[offset], node)
                         = IF last[3] = DISCARDED_STATE THEN <<>>
                           ELSE <<Cell(node, last[3])>>

IdInputs == {<<0, 0, 0, 0, 0, 0, hi, lo>> : hi \in 0..1, lo \in 0..3}

\* the cells the flags ask for: not discarded when writable is set, neither
\* discarded nor out-of-date when readable is set
Asked(row, readable, writable) ==
    {c \in Range(row) :
        /\ writable => c.state # DISCARDED_STATE
        /\ readable => c.state \notin {DISCARDED_STATE, OUT_OF_DATE_STATE}}

\* C20: getCellListForOID(id, readable, writable) and getCellListForTID(id,
\* readable, writable) return exactly the cells of partition u64(id) mod P,
\* in stored order: every cell when no flag is set, the cells that are not
\* discarded when writable is set, those that are neither discarded nor
\* out-of-date when readable is set; with 3 partitions the ids 1, 2, 3 are
\* of partitions 1, 2, 0.
C20_CellListForID ==
    /\ \A id \in IdInputs, readable \in BOOLEAN, writable \in BOOLEAN :
           LET row == ptab.partition_list[
                          (id[7] * 256 + id[8]) % NumPartitions]
           IN  /\ getCellListForOID(ptab, id, readable, writable)
                      = SeqFilter(row, Asked(row, readable, writable))
               /\ getCellListForTID(ptab, id, readable, writable)
                      = SeqFilter(row, Asked(row, readable, writable))
    /\ \A n \in 1..3 :
           _getPartitionFromIndex(PartitionTable(3),
                                  u64(<<0, 0, 0, 0, 0, 0, 0, n>>))
               = IF n = 3 THEN 0 ELSE n

\* partition 1 holds an out-of-date cell before an up-to-date one: the
\* readable cells are not all the cells
C20_Witness ==
    ptab.partition_list[1]
        = <<Cell("s1", OUT_OF_DATE_STATE), Cell("s2", UP_TO_DATE_STATE)>>

(***************************************************************************)
(* Part II, properties of the calls with handles.                          *)
(***************************************************************************)
\* the step sends nothing and changes nothing of the client but the record
\* of the last call
NothingDone ==
    /\ lv' = lv
    /\ pend' = pend
    /\ queue' = queue
    /\ up' = up
    /\ mq_cache' = mq_cache
    /\ ctid' = ctid
    /\ load_lock' = load_lock
    /\ cres'.sent = <<>>

\* C21: tpc_begin(txn) called while txn is the active transaction, and
\* tpc_abort(txn) or tpc_finish(txn) called with a handle that is not the
\* active transaction, return without raising, send no packet to a storage
\* or to the master and leave txn, tid and the rest of the context as they
\* were.
C21_FastPathStep ==
    \A transaction \in Transactions :
        /\ lv.txn = transaction /\ BeginWith(transaction)
               => NothingDone /\ cres'.raised = "none"
        /\ lv.txn # transaction
             /\ (\/ \E f \in BOOLEAN,
                       answer \in {"answered", "other", "closed"} :
                        FinishWith(transaction, f, answer)
                 \/ AbortWith(transaction, NoDial, {}))
               => NothingDone /\ cres'.raised = "none"

C21_FastPaths == [][C21_FastPathStep]_vars

\* tpc_abort was called with a handle that is not the active transaction
\* while store requests of the active transaction were pending
C21_Witness ==
    /\ cres.call = "tpc_abort"
    /\ lv.txn # 0
    /\ cres.transaction # lv.txn
    /\ lv.tid # 0
    /\ pend # {}
    /\ lv.involved_nodes # {}

\* C22: store, tpc_vote and undo called with a handle that is not the
\* active transaction raise StorageTransactionError, and tpc_begin called
\* while another transaction is active raises NeoException ("local_var is
\* not clean"); in each case nothing is sent and txn, tid and the per-OID
\* maps of the context are as they were.
C22_MisuseStep ==
    \A transaction \in Transactions :
        /\ lv.txn # transaction
             /\ (\/ StoreWith(transaction)
                 \/ VoteWith(transaction)
                 \/ UndoWith(transaction))
               => NothingDone /\ cres'.raised = "StorageTransactionError"
        /\ lv.txn \notin {0, transaction} /\ BeginWith(transaction)
               => NothingDone /\ cres'.raised = "NeoException"

C22_Misuse == [][C22_MisuseStep]_vars

\* store was called with a handle that is not the active transaction while
\* store requests of the active transaction were pending
C22_Witness ==
    /\ cres.call = "store"
    /\ cres.raised = "StorageTransactionError"
    /\ lv.txn # 0
    /\ cres.transaction # lv.txn
    /\ pend # {}

\* the number of AbortTransaction(tid) notifications to a node in what a
\* call sent
RECURSIVE Aborts(_, _, _)
Aborts(sent, to, tid) ==
    IF sent = <<>> THEN 0
    ELSE (IF Head(sent) = Sent("AbortTransaction", to, tid) THEN 1 ELSE 0)
         + Aborts(Tail(sent), to, tid)

\* tpc_abort of the active transaction notified every involved storage it
\* could reach once, and the master once
AbortNotified(dial, broken) ==
    /\ Len(cres'.sent) =
           Aborts(cres'.sent, "master", lv.tid)
           + Aborts(cres'.sent, "s1", lv.tid)
           + Aborts(cres'.sent, "s2", lv.tid)
    /\ Aborts(cres'.sent, "master", lv.tid) =
           IF "master" \in broken THEN 0 ELSE 1
    /\ \A uuid \in Storages :
           Aborts(cres'.sent, uuid, lv.tid) =
               IF /\ uuid \in lv.involved_nodes
                  /\ uuid \in up \/ dial[uuid] = "ready"
                  /\ uuid \notin broken
               THEN 1 ELSE 0

\* C23: tpc_abort(txn) on the active transaction sends exactly one
\* AbortTransaction(tid) notification to each storage of involved_nodes it
\* can reach and one to the master, and afterwards the context is cleared,
\* also when a notification or the handling of a pending answer raised.
C23_AbortStep ==
    \A dial \in [Storages -> DialOutcomes],
       broken \in SUBSET (Storages \cup {"master"}) :
        lv.txn # 0 /\ AbortWith(lv.txn, dial, broken)
            => /\ lv' = EmptyContext
               /\ AbortNotified(dial, broken)

C23_Counterexample == [][C23_AbortStep]_vars

\* C24: tpc_finish on the active transaction clears the context exactly
\* when the answer of the master marked the transaction finished, and then
\* returns the TID; when the master answers without marking it, tpc_finish
\* raises NEOStorageError after having called the callback with the TID and
\* sent AskFinishTransaction(tid), keeps txn and tid and leaves the cache
\* as it was; whatever the outcome, the load lock is free afterwards.
C24_FinishStep ==
    \A f \in BOOLEAN, answer \in {"answered", "other", "closed"} :
        lv.txn # 0 /\ FinishWith(lv.txn, f, answer)
            => /\ lv' = EmptyContext <=> answer = "answered"
               /\ answer = "answered"
                     => cres'.raised = "none" /\ cres'.value = <<lv.tid>>
               /\ answer = "other"
                     => /\ cres'.raised = "NEOStorageError"
                        /\ cres'.called = IF f THEN <<lv.tid>> ELSE <<>>
                        /\ cres'.sent = <<Sent("AskFinishTransaction",
                                               "master", lv.tid)>>
                        /\ lv'.txn = lv.txn
                        /\ lv'.tid = lv.tid
                        /\ mq_cache' = mq_cache
               /\ ~load_lock'

C24_Finish == [][C24_FinishStep]_vars

\* tpc_finish of a transaction that still holds the payload of an object
\* raised after the callback was called with the TID
C24_Witness ==
    /\ cres.call = "tpc_finish"
    /\ cres.raised = "NEOStorageError"
    /\ lv.txn # 0
    /\ cres.called = <<lv.tid>>
    /\ lv.data_dict # <<>>
    /\ ~load_lock

\* AnswerStoreObject packets as the poll thread queues them
StoreAnswer(uuid, conflict, oid, serial) ==
    [type |-> "AnswerStoreObject", uuid |-> uuid, conflict |-> conflict,
     oid |-> oid, serial |-> serial]

\* C25: for an object stored on the base serial s that no storage has
\* answered for yet, when one storage answers success at s and another
\* answers a conflict with s that is not resolved, handling the two answers
\* raises NEOStorageError, in whichever order they are queued.
C25_Counterexample ==
    \A oid \in DOMAIN lv.object_serial_dict :
      \A u1 \in Storages, u2 \in Storages :
        LET s == lv.object_serial_dict[oid]
            success == StoreAnswer(u1, 0, oid, s)
            conflict == StoreAnswer(u2, s, oid, s)
        IN  /\ u1 # u2
            /\ s # 0
            /\ s \notin Get(lv.resolved_conflict_serial_dict, oid, {})
            /\ oid \notin DOMAIN lv.conflict_serial_dict
            /\ DOMAIN lv.object_stored_counter_dict[oid] = {}
            /\ queue = <<>>
            => \A answers \in {<<success, conflict>>, <<conflict, success>>} :
                  _waitAnyMessage([CState("store") EXCEPT !.queue = answers])
                      .res.raised = "NEOStorageError"

(***************************************************************************)
(* Part V, properties of the connection pool and of the waits.             *)
(***************************************************************************)
\* thread t ends a call of getConnForNode without a connection
EndsWithout(t) ==
    /\ \/ thread[t].pc \in {"lookup", "init", "handshake"}
       \/ \E uuid \in Storages :
              snode[uuid] = "DOWN" /\ GetConnForNodeBy(t, uuid)
    /\ thread'[t].pc = "idle"
    /\ thread'[t].result # "conn"

\* C29: getConnForNode gives None, raises nothing and puts nothing in the
\* pool when the node is not running or has no address, when the
\* connection cannot be made or closes during the handshake, and when the
\* storage answers NotReady
C29_Counterexample ==
    [][\A t \in Threads :
          EndsWithout(t) =>
              /\ thread'[t].result = "None"
              /\ connection_dict' = connection_dict]_vars

\* thread t came back from getConnForNode with a connection that is open
Holds(t) ==
    /\ thread[t].pc = "idle"
    /\ thread[t].result = "conn"
    /\ pconn[thread[t].conn].state = "open"

\* C27: when two threads ask the pool for a connection to the same storage
\* and the pool has none, one connection at most is made and kept: the
\* threads never hold two open connections to one storage
C27_Counterexample ==
    \A t, u \in Threads :
        (/\ Holds(t)
         /\ Holds(u)
         /\ pconn[thread[t].conn].uuid = pconn[thread[u].conn].uuid)
            => thread[t].conn = thread[u].conn

\* no request is pending on a connection of the pool
AllIdle ==
    \A uuid \in DOMAIN connection_dict :
        Idle(PState, connection_dict[uuid])

\* C28: while every connection of the pool is idle the pool holds
\* max_pool_size connections at most
C28_Counterexample ==
    AllIdle => Cardinality(DOMAIN connection_dict) <= max_pool_size

\* thread t waits in _waitMessage for an answer on connection conn
Waiting(t, conn) ==
    /\ thread[t].pc \in {"handshake", "ask"}
    /\ thread[t].conn = conn

\* the None packet of connection conn
Sentinel(conn) == [conn |-> conn, id |-> 0, type |-> "None"]

\* connectionLost takes the connection out of the pool and gives its None
\* packet to every thread with a request pending on it
C26_LostStep ==
    \A conn \in 1..(MaxConns + 1) :
        ConnectionLostOf(conn) =>
            /\ conn \notin Range(connection_dict')
            /\ \A t \in Threads :
                   (\E e \in dispatcher : e.conn = conn /\ e.thread = t)
                       => tqueue'[t] = Append(tqueue[t], Sentinel(conn))

\* a waiting thread that takes a None packet ends its wait with
\* ConnectionClosed, which in _initNodeConnection gives None, when the
\* packet is of the connection it waits on, and goes on waiting otherwise
C26_WaitStep ==
    \A t \in Threads :
        (WaitMessageBy(t) /\ Head(tqueue[t]).type = "None") =>
            IF Head(tqueue[t]).conn = thread[t].conn
            THEN /\ thread'[t].pc = "idle"
                 /\ thread'[t].result =
                        IF thread[t].pc = "ask" THEN "ConnectionClosed"
                        ELSE "None"
            ELSE [thread'[t] EXCEPT !.handled = <<>>]
                     = [thread[t] EXCEPT !.handled = <<>>]

\* C26: when the connection to a storage is lost, every thread with a
\* request pending on it stops waiting: it gets the None packet of the
\* connection and its wait fails with ConnectionClosed, the None packet of
\* another connection does not end a wait, and the connection leaves the
\* pool
C26_ConnectionLost ==
    /\ \A t \in Threads, conn \in 1..(MaxConns + 1) :
           (Waiting(t, conn) /\ pconn[conn].state = "closed")
               ~> ~Waiting(t, conn)
    /\ [][C26_LostStep /\ C26_WaitStep]_vars

\* both threads waited on one connection, which was lost
C26_Witness ==
    \E conn \in DOMAIN pconn :
        /\ pconn[conn].state = "closed"
        /\ conn \notin Range(connection_dict)
        /\ \A t \in Threads :
               /\ thread[t].result = "ConnectionClosed"
               /\ thread[t].conn = conn

C32_Counterexample ==
    nlock <=> \E t \in Threads : nthread[t].txn # 0

(***************************************************************************)
(* Part V, properties of the answers taken from the queue.                 *)
(***************************************************************************)
\* C33: every answer that _waitMessage takes from the queue of the thread,
\* the None packets aside, is handed to a handler, the answers to other
\* requests on the connection waited on included; none is dropped.
C33_Counterexample ==
    [][\A t \in Threads :
          (WaitMessageBy(t) /\ Head(tqueue[t]).type # "None")
              => thread'[t].handled = <<Head(tqueue[t])>>]_vars

(***************************************************************************)
(* Part VIII, properties.                                                  *)
(***************************************************************************)
\* C34: when waitResponses returns, no request is registered on the queue
\* of the thread, whatever the poll thread does meanwhile, the timeout
\* hook that forgets a store and then asks AskHasLock on the same queue
\* included; the answer to a forgotten store is never handled as the
\* answer to a store.
C34_Counterexample ==
    /\ \A t \in Threads :
           waiter[t].pc \in {"return", "returned"} =>
               \A msg_id \in DOMAIN message_table :
                   message_table[msg_id] # t
    /\ stored \cap forgotten = {}

(***************************************************************************)
(* Part V, properties of the eviction.                                     *)
(***************************************************************************)
\* the connections a step closes
Evicted ==
    {conn \in DOMAIN pconn :
        pconn[conn].state = "open" /\ pconn'[conn].state = "closed"}

\* C35: the eviction of getConnForNode closes and removes from the pool
\* only connections on which no request is registered, never one with a
\* request outstanding, and stops as soon as the pool holds no more than
\* max_pool_size connections.
C35_Eviction ==
    [][Lookup =>
          /\ \A conn \in Evicted :
                 /\ ~\E e \in dispatcher : e.conn = conn
                 /\ conn \in Range(connection_dict)
                 /\ conn \notin Range(connection_dict')
          /\ \A uuid \in DOMAIN connection_dict :
                 uuid \in DOMAIN connection_dict'
                     \/ connection_dict[uuid] \in Evicted
          /\ Evicted # {} =>
                 /\ Cardinality(DOMAIN connection_dict) > max_pool_size
                 /\ Cardinality(DOMAIN connection_dict') >= max_pool_size
          /\ (/\ Cardinality(DOMAIN connection_dict) > max_pool_size
              /\ \A t \in Threads :
                     thread[t].pc = "lookup" =>
                         thread[t].uuid \notin DOMAIN connection_dict) =>
                 \/ Cardinality(DOMAIN connection_dict') <= max_pool_size
                 \/ \A conn \in Range(connection_dict') :
                        \E e \in dispatcher : e.conn = conn]_vars

\* the eviction closed a connection that had been used and passed over
\* the connection with a request outstanding
C35_Witness ==
    /\ thread["t1"].pc = "init"
    /\ \E conn \in DOMAIN pconn :
           pconn[conn].state = "closed" /\ pconn[conn].last_id >= 2
    /\ \E conn \in Range(connection_dict) :
           \E e \in dispatcher : e.conn = conn

(***************************************************************************)
(* Part IX, properties.                                                    *)
(***************************************************************************)
\* what a check of the idle events at time t does with an event
C36_Check(t) ==
    \A i \in DOMAIN event_list :
        LET event == event_list[i]
            conn == event.conn
            rearmed == IF event.additional_timeout > PingDelay
                       THEN IdleEvent(conn, event.id, t, PingDelay,
                                      event.additional_timeout - PingDelay)
                       ELSE IdleEvent(conn, event.id, t,
                                      event.additional_timeout, 0)
            mine == SelectSeq(event_list', LAMBDA e : e.conn = conn)
        IN  IF t > event.critical_time
            THEN /\ econn'[conn].state = "closed"
                 /\ econn'[conn].expired
                 /\ mine = <<>>
            ELSE IF t > event.time
            THEN /\ mine = <<rearmed>>
                 /\ rearmed.additional_timeout < event.additional_timeout
                 /\ econn'[conn] =
                        [econn[conn] EXCEPT
                           !.pings = IF event.additional_timeout > PingDelay
                                     THEN @ + 1 ELSE @]
            ELSE /\ mine = <<event>>
                 /\ econn'[conn] = econn[conn]

\* C36: at each check of the timers an idle event before its timeout is
\* left alone; one past its timeout and not past its critical time is
\* discarded and the request armed again, with a ping and an additional
\* timeout reduced by 5 while that exceeds 5 and with no additional timeout
\* otherwise; one past its critical time has its connection closed and
\* timeoutExpired called.  The additional timeout decreases, and a request
\* that is not answered has its connection closed in the end.
C36_IdleEvents ==
    /\ [][prev_time' # prev_time => C36_Check(prev_time')]_vars
    /\ \A conn \in EConns :
           [](econn[conn].state = "asked"
                  => <>(econn[conn].state \in {"closed", "answered"}))

\* a request was pinged twice, armed a last time and its connection closed
C36_Witness ==
    \E conn \in EConns :
        /\ econn[conn].state = "closed"
        /\ econn[conn].expired
        /\ econn[conn].pings = 2

(***************************************************************************)
(* Part I, properties of the finish under fairness.                        *)
(***************************************************************************)
\* C37: when the storages that are connected answer their lock requests,
\* every AskFinishTransaction(tid) the master accepted is answered with
\* AnswerTransactionFinished(tid), unless the transaction is aborted or
\* its client lost (the record is then dropped) or the master leaves the
\* service; a storage without connection does not make it wait for ever.
C37_Counterexample ==
    \A tid \in 1..MaxTID :
        (tid \in DOMAIN tm /\ tm[tid].prepared)
            ~> (tid \notin DOMAIN tm \/ mstatus # "service")

(***************************************************************************)
(* Part X, properties.                                                     *)
(***************************************************************************)
\* the objects of a transaction the storage knows
ObjectsOf(tid) == Range(Get(transaction_dict, tid, <<>>))

\* LockInformation(tid) is answered and load-locks the objects of a known
\* transaction, and nothing else changes
C38_LockStep ==
    \A tid \in StorageTIDs :
        (phase[tid] = "open" /\ phase'[tid] = "locked") =>
            /\ sanswer' = <<"AnswerInformationLocked", tid>>
            /\ \A oid \in ObjectsOf(tid) :
                   oid \in DOMAIN load_lock_dict' /\ load_lock_dict'[oid] = tid
            /\ \A oid \in StorageOIDs \ ObjectsOf(tid) :
                   Get(load_lock_dict', oid, 0) = Get(load_lock_dict, oid, 0)
            /\ UNCHANGED <<transaction_dict, store_lock_dict, event_queue,
                           executions>>

\* UnlockInformation(tid) for a known transaction frees its objects,
\* removes it and executes the queued events; for an unknown one it
\* changes nothing
C38_UnlockStep ==
    \A tid \in StorageTIDs :
        (phase[tid] = "locked" /\ phase'[tid] = "unlocked") =>
            IF tid \in DOMAIN transaction_dict
            THEN /\ \A oid \in ObjectsOf(tid) :
                        /\ oid \notin DOMAIN load_lock_dict'
                        /\ \/ oid \notin DOMAIN store_lock_dict'
                           \/ store_lock_dict'[oid] # tid
                 /\ tid \notin DOMAIN transaction_dict'
                 /\ tid \in sdm'.finished
                 /\ executions' = executions + 1
                 /\ \A e \in Range(event_queue) :
                        \/ e \in Range(event_queue')
                        \/ e.oid \in Range(Get(transaction_dict', e.tid, <<>>))
            ELSE UNCHANGED <<transaction_dict, load_lock_dict,
                             store_lock_dict, event_queue, sdm, executions>>

\* C38: a storage answers every LockInformation(tid) with
\* AnswerInformationLocked(tid) and load-locks the objects of a known
\* transaction; UnlockInformation(tid) of a known transaction leaves none
\* of its objects load-locked or store-locked, removes the transaction and
\* executes the queued events, and of an unknown one changes nothing.
C38_LockUnlock == [][C38_LockStep /\ C38_UnlockStep]_vars

\* a transaction was unlocked and the store it had delayed got the object
C38_Witness ==
    /\ phase[1] = "unlocked"
    /\ 1 \in sdm.finished
    /\ executions = 1
    /\ \E oid \in StorageOIDs :
           oid \in DOMAIN store_lock_dict /\ store_lock_dict[oid] = 2

(***************************************************************************)
(* Part XI, properties.                                                    *)
(***************************************************************************)
\* a connection is at most once in the queue and the assertion of
\* unregister holds
C39_Once ==
    /\ ~asserted
    /\ \A i, j \in DOMAIN pending_processing :
           pending_processing[i] = pending_processing[j] => i = j

\* what a call of poll does with a queue that is not empty: it does not
\* read the network, processes the first connection and queues it again
\* at the tail when it has messages left
C39_PollStep ==
    (polled' # polled \/ pending_processing' # pending_processing
        \/ messages' # messages) =>
        IF pending_processing # <<>> /\ received' = received
               /\ em_connection_dict' \subseteq em_connection_dict
               /\ messages' # messages
        THEN LET conn == Head(pending_processing)
             IN  /\ ~polled'.read
                 /\ polled'.processed = conn
                 /\ messages' = [messages EXCEPT ![conn] = @ - 1]
                 /\ pending_processing' =
                        IF messages'[conn] > 0
                        THEN Append(Tail(pending_processing), conn)
                        ELSE Tail(pending_processing)
        ELSE TRUE

\* C39: a connection is at most once in the queue of connections to
\* process, so that the assertion of unregister holds; poll reads the
\* network only when the queue is empty, processes one queued connection
\* per call, the first, and queues it again at the tail while it has
\* messages.
C39_Queue ==
    /\ []C39_Once
    /\ [][C39_PollStep]_vars
    /\ [][received' # received /\ (\E conn \in EMConns :
                                      received'[conn] < received[conn])
             => pending_processing = <<>> /\ polled'.read]_vars

\* two connections wait in the queue behind one that was queued again
C39_Witness ==
    /\ Len(pending_processing) = 3
    /\ messages[pending_processing[3]] = 1
    /\ polled.processed = pending_processing[3]
    /\ ~polled.read

(***************************************************************************)
(* Part XII, properties.                                                   *)
(***************************************************************************)
\* C40: when two threads call _getMasterConnection while there is no
\* connection to the primary master, the connection is made once, both
\* threads are returned the same connection, and new_oid_list is emptied
\* only by the thread that connects.
C40_Counterexample ==
    /\ Len(connections) <= 1
    /\ \A t1, t2 \in Callers :
           \A i \in DOMAIN caller[t1].returned,
              j \in DOMAIN caller[t2].returned :
               caller[t1].returned[i] = caller[t2].returned[j]
    /\ \A t \in resetters :
           caller[t].pc = "connect" \/ Range(connections) = {t}
=============================================================================
